---------------------------- MODULE Spec2Model ----------------------------
(***************************************************************************)
(* A model of the CMI exchange bot of src/bot.py:                          *)
(*   - the incremental trade ledger      (BaseBot.get_market_trades),      *)
(*   - the concurrent order dispatcher   (BaseBot.send_order/send_orders), *)
(*   - the ETF arbitrage strategy        (ETFArbitrageBot.on_orderbook,    *)
(*                                        check_arbitrage and execute). *)
(*   - the order-book event handler      (_SSEThread._on_order_event).     *)
(*   - the lifecycle and the stream consumer (BaseBot.start / stop,        *)
(*                                        _SSEThread.run / close).         *)
(* Each part has its own specification (SpecLedger, SpecDispatch,          *)
(* SpecStrategy, SpecBook, SpecStream); the variables of the other parts   *)
(* stay at their initial values.                                           *)
(***************************************************************************)
EXTENDS Integers, Sequences, FiniteSets, TLC

VARIABLES
    \* ---- BaseBot incremental trade state (bot.py 192-195) ----
    trades,            \* self.trades: the ledger, a sequence of Trade
    trade_watermark,   \* self._trade_watermark: None or a timestamp string
    last_trade_fetch,  \* self._last_trade_fetch: None or "set" (a clock reading)
    \* ---- the venue, and a record of the last get_market_trades() call ----
    venue,             \* the set of trades the exchange has emitted so far
    poll,              \* the last call: its 'from' parameter, outcome, response, result
    venueOrdered,      \* every successful poll so far was answered in non-decreasing
                       \* timestamp order
    venueComplete,     \* every successful poll so far was answered with exactly the
                       \* venue's trades at or after 'from'
    newSincePoll       \* the venue has emitted a trade since the last successful poll

    \* ---- one BaseBot.send_orders() call (bot.py 287-300) ----
VARIABLES
    so_pc,             \* the caller's position: [phase, i], i the loop index
    so_n,              \* len(orders): the legs are 1..so_n
    so_batch,          \* which call this is (alternates), to tell batches apart
    leg,               \* per leg, the position of its thread in _send
    legOutcome,        \* per leg, what its POST /api/order came to
    results,           \* the local list 'results'
    so_result          \* how the call ended: "none", "returned" or "raised"

dispatchVars == <<so_pc, so_n, so_batch, leg, legOutcome, results, so_result>>

    \* ---- ETFArbitrageBot (bot.py 366-540) and the exchange it trades on ----
VARIABLES
    orderbooks,        \* self.orderbooks: a dict product -> OrderBook
    exPos,             \* the exchange's net position of this user, per product
    cycle              \* the last on_orderbook() call: whether check_arbitrage ran,
                       \* how the position fetch ended, the batches handed to
                       \* send_orders(); seq alternates to tell the calls apart

strategyVars == <<orderbooks, exPos, cycle>>

    \* ---- _SSEThread._on_order_event (bot.py 164-179) ----
VARIABLES
    wire,              \* the data of the last "order" event: <<>> or <<data>>
    published          \* the OrderBook it handed to _handle_orderbook: <<>> or <<book>>

bookVars == <<wire, published>>

    \* ---- BaseBot.start / stop and the _SSEThread objects (bot.py 108-162,
    \*      209-224) ----
VARIABLES
    sse_thread,        \* self._sse_thread: 0 for None, or the thread it refers to
    threads,           \* per _SSEThread object: pc (where its run() is), closed
                       \* (self._closed), http_stream (self._http_stream, which
                       \* self._client wraps: "None", "open" or "closed")
    caller,            \* the thread that calls start() and stop(): "idle", or
                       \* "joining" inside stop() after close()
    life,              \* how the last start() call since the last stop() ended
    callback,          \* alternates with every on_orderbook / on_trades call of
                       \* a consumer, to tell the calls apart
    awaiting,          \* the stream of the thread self._sse_thread refers to
                       \* broke, with no stop() called, and the thread has not
                       \* published a book since
    malformed          \* alternates with every inbound event whose handling
                       \* raised inside _consume, to tell those events apart

streamVars == <<sse_thread, threads, caller, life, callback, awaiting, malformed>>

    \* ---- emergency_close.py and the REST helpers it calls (bot.py 276-358) ----
VARIABLES
    netPos,            \* the exchange's net position of the closer's user, per product
    resting,           \* the ids of that user's orders resting on the exchange
    ec,                \* the script: pc (the line it is at), open (the sorted
                       \* items of open_positions), i (the item of the for loop),
                       \* ob (the OrderBook fetched for it), resp (the id of
                       \* the response whose remainder is to be cancelled),
                       \* reported ("ALL POSITIONS CLOSED" was printed)
    ca,                \* the cancel_all_orders() call: phase, orders (the
                       \* listing), i (loop index), st / out per thread
    rest,              \* the last REST helper call: fn, outcome (of the
                       \* request), raised, returned
    lastOrder          \* the last order the script sent in this round of its
                       \* loop, with the position and book it was built
                       \* from: <<>> or <<record>>

closeVars == <<netPos, resting, ec, ca, rest, lastOrder>>

    \* ---- on_orderbook callbacks of consumers that run at the same time
    \*      (bot.py 388-394, 444-518) ----
VARIABLES
    pending,           \* per consumer thread: the branch of check_arbitrage it
                       \* has decided to execute, and the spread it computed
    dispatched         \* the last batch built by an execute method, with the
                       \* spread that triggered it: <<>> or <<record>>

raceVars == <<pending, dispatched>>

ledgerVars == <<trades, trade_watermark, last_trade_fetch, venue, poll,
                venueOrdered, venueComplete, newSincePoll>>

vars == <<ledgerVars, dispatchVars, strategyVars, bookVars, streamVars, closeVars, raceVars>>

\* What the operations of one part leave alone.
nonLedgerVars == <<dispatchVars, strategyVars, bookVars, streamVars, closeVars, raceVars>>
nonDispatchVars == <<ledgerVars, strategyVars, bookVars, streamVars, closeVars, raceVars>>
nonStrategyVars == <<ledgerVars, dispatchVars, bookVars, streamVars, closeVars, raceVars>>
nonStrategyBookVars == <<ledgerVars, dispatchVars, streamVars, closeVars, raceVars>>
nonStrategyStreamVars == <<ledgerVars, dispatchVars, bookVars, closeVars, raceVars>>
nonStreamVars == <<ledgerVars, dispatchVars, strategyVars, bookVars, closeVars, raceVars>>
nonCloseVars == <<ledgerVars, dispatchVars, strategyVars, bookVars, streamVars, raceVars>>
nonStrategyRaceVars == <<ledgerVars, dispatchVars, bookVars, streamVars, closeVars>>

None == "None"

(***************************************************************************)
(* Bounds of the model.                                                    *)
(***************************************************************************)
MaxVenue == 3     \* trades the venue emits
MaxLedger == 4    \* entries the ledger may hold (it grows without bound)
MaxLegs == 4      \* order requests in one send_orders() batch
MaxLevels == 3    \* price levels of one side of an order event
MaxThreads == 2   \* _SSEThread objects created by start() calls
MaxOpen == 2      \* size of a net position the closer starts from
MaxOrders == 2    \* orders of the closer's user resting at one time

(***************************************************************************)
(* ETFArbitrageBot configuration (bot.py 379-386).                         *)
(***************************************************************************)
MARKET_1 == "M1"
MARKET_3 == "M3"
MARKET_5 == "M5"
MARKET_7 == "M7"
MIN_SPREAD == 5
MAX_POSITION == 100
ORDER_SIZE == 5

\* The products check_arbitrage needs (bot.py 393), and the products of the
\* stream: "M2" is one the strategy does not use.
\* The products the closer's user holds positions in, in sorted() order.
CloseProducts == <<MARKET_1, MARKET_3>>

Required == {MARKET_1, MARKET_3, MARKET_5, MARKET_7}
Products == Required \cup {"M2"}

\* The empty dict {}: a function with no key.
EmptyDict == <<>>

\* An Optional[float]: <<>> is None, <<x>> is the price x.
NoPrice == <<>>
Some(x) == <<x>>

\* An _SSEThread that has not been constructed, and one just constructed
\* (bot.py 123-126) and started (218).
NoThread == [pc |-> "unborn", closed |-> FALSE, http_stream |-> "None"]
NewThread == [pc |-> "loop", closed |-> FALSE, http_stream |-> "None"]

NoCycle ==
    [seq |-> 0, evaluated |-> FALSE, posOutcome |-> "none", batches |-> <<>>,
     escaped |-> FALSE]

\* emergency_close.py before its first line has run, no cancel_all_orders()
\* call under way, and no REST helper called yet.
NoScript ==
    [pc |-> "unstarted", open |-> <<>>, i |-> 0, ob |-> <<>>, resp |-> 0,
     reported |-> FALSE]

NoCancelAll ==
    [phase |-> "idle", orders |-> <<>>, i |-> 0,
     st |-> [k \in 1..MaxOrders |-> "none"], out |-> [k \in 1..MaxOrders |-> "none"]]

\* A consumer that is not between the decision of check_arbitrage and the
\* execute method.
NoPending == [direction |-> "none", spread |-> 0]

NoRest == [fn |-> "none", outcome |-> "none", raised |-> FALSE, returned |-> "None"]

(***************************************************************************)
(* Trade.timestamp is a str (bot.py 58) and is compared with Python's      *)
(* str ordering (bot.py 258): lexicographic on the characters.  A          *)
(* timestamp is modelled as the sequence of its digits, so that            *)
(* "1" < "10" < "2", and the empty string is below every other.            *)
(***************************************************************************)
RECURSIVE StrLess(_, _)
StrLess(a, b) ==
    IF b = <<>> THEN FALSE
    ELSE IF a = <<>> THEN TRUE
    ELSE IF Head(a) # Head(b) THEN Head(a) < Head(b)
    ELSE StrLess(Tail(a), Tail(b))

StrLeq(a, b) == a = b \/ StrLess(a, b)

\* Python truthiness of an Optional[str]: None and "" are falsy (bot.py 243).
Truthy(s) == s # None /\ s # <<>>

\* "" < "1" < "10" < "2"
Timestamps == {<<>>, <<1>>, <<1, 0>>, <<2>>}

\* The other fields of a Trade (product, buyer, seller, volume, price) as one tag.
TradeRest == {"x", "y"}

\* The trades the venue can emit: one per timestamp, and a second one sharing
\* the timestamp "1".
Trade == {t \in [timestamp : Timestamps, rest : TradeRest] :
            t.rest = "y" => t.timestamp = <<1>>}

(***************************************************************************)
(* The venue's answer to GET /api/trade: any sequence without repetition   *)
(* of trades the venue has emitted (the code accepts whatever list the     *)
(* response carries, bot.py 256).                                          *)
(***************************************************************************)
RECURSIVE Arrangements(_)
Arrangements(S) ==
    IF S = {} THEN {<<>>}
    ELSE UNION {{<<x>> \o r : r \in Arrangements(S \ {x})} : x \in S}

Responses(V) == UNION {Arrangements(T) : T \in SUBSET V}

NonDecreasing(R) ==
    \A i \in 1..Len(R) : \A j \in i..Len(R) : StrLeq(R[i].timestamp, R[j].timestamp)

SeqSet(R) == {R[i] : i \in 1..Len(R)}

\* The venue contract of the trade endpoint: all trades at or after the lower
\* bound (Complete), in non-decreasing timestamp order (NonDecreasing).
Complete(R, from) ==
    SeqSet(R) = {t \in venue : from = None \/ StrLeq(from, t.timestamp)}

(***************************************************************************)
(* BaseBot.get_market_trades                                               *)
(***************************************************************************)
\* params["from"] (bot.py 242-244): set only when the watermark is truthy.
FromParam == IF Truthy(trade_watermark) THEN trade_watermark ELSE None

\* bot.py 258: the test that admits a returned trade (and the variant with >=
\* for >, against which the ledger properties are tested).
IsNewMutantGeq(trade, w) == w = None \/ StrLeq(w, trade.timestamp)
IsNew(trade, w) == w = None \/ StrLess(w, trade.timestamp)

\* bot.py 255-259: the loop that filters the response, in response order.
NewTrades(R, w) == SelectSeq(R, LAMBDA t : IsNew(t, w))

\* bot.py 261-263: the ledger and the watermark after the filter (and the
\* variant that takes new_trades[0] for new_trades[-1]).
LedgerAfter(new) == IF new # <<>> THEN trades \o new ELSE trades
WatermarkAfterMutantFirst(new) == IF new # <<>> THEN new[1].timestamp ELSE trade_watermark
WatermarkAfter(new) == IF new # <<>> THEN new[Len(new)].timestamp ELSE trade_watermark

\* requests.get raises (ConnectionError, Timeout): nothing in the method
\* catches it, so it leaves through line 245 with no assignment made.
PollRaises ==
    /\ poll' = [from |-> FromParam, outcome |-> "conn_error",
                response |-> <<>>, result |-> "raised"]
    /\ UNCHANGED <<trades, trade_watermark, last_trade_fetch, venue,
                   venueOrdered, venueComplete, newSincePoll>>
    /\ UNCHANGED nonLedgerVars

\* bot.py 250-253: a response that is not ok.
PollNotOk ==
    /\ last_trade_fetch' = "set"
    /\ poll' = [from |-> FromParam, outcome |-> "http_error",
                response |-> <<>>, result |-> "returned"]
    /\ UNCHANGED <<trades, trade_watermark, venue,
                   venueOrdered, venueComplete, newSincePoll>>
    /\ UNCHANGED nonLedgerVars

\* bot.py 250-265: an ok response carrying the list R.
PollOk(R) ==
    LET new == NewTrades(R, trade_watermark) IN
    /\ Len(trades) + Len(new) <= MaxLedger
    /\ last_trade_fetch' = "set"
    /\ trades' = LedgerAfter(new)
    /\ trade_watermark' = WatermarkAfter(new)
    /\ poll' = [from |-> FromParam, outcome |-> "ok",
                response |-> R, result |-> "returned"]
    /\ venueOrdered' = (venueOrdered /\ NonDecreasing(R))
    /\ venueComplete' = (venueComplete /\ Complete(R, FromParam))
    /\ newSincePoll' = FALSE
    /\ UNCHANGED venue
    /\ UNCHANGED nonLedgerVars

GetMarketTrades ==
    \/ PollRaises
    \/ PollNotOk
    \/ \E R \in Responses(venue) : PollOk(R)

\* The exchange records a trade, stamped with its clock: no earlier than the
\* trades it has recorded before.
VenueEmits ==
    /\ Cardinality(venue) < MaxVenue
    /\ \E t \in Trade \ venue :
          /\ \A u \in venue : StrLeq(u.timestamp, t.timestamp)
          /\ venue' = venue \cup {t}
    /\ newSincePoll' = TRUE
    /\ UNCHANGED <<trades, trade_watermark, last_trade_fetch, poll,
                   venueOrdered, venueComplete>>
    /\ UNCHANGED nonLedgerVars

NoPoll == [from |-> None, outcome |-> "none", response |-> <<>>, result |-> "none"]

\* BaseBot.__init__ (bot.py 186-195): an empty ledger with no watermark; the
\* venue has no trade yet, and no send_orders() call has been made.
Init ==
    /\ trades = <<>>
    /\ trade_watermark = None
    /\ last_trade_fetch = None
    /\ venue = {}
    /\ poll = NoPoll
    /\ venueOrdered = TRUE
    /\ venueComplete = TRUE
    /\ newSincePoll = FALSE
    /\ so_pc = [phase |-> "idle", i |-> 0]
    /\ so_n = 0
    /\ so_batch = 0
    /\ leg = [k \in 1..MaxLegs |-> "none"]
    /\ legOutcome = [k \in 1..MaxLegs |-> "none"]
    /\ results = <<>>
    /\ so_result = "none"
    /\ orderbooks = EmptyDict
    /\ exPos = [p \in Required |-> 0]
    /\ cycle = NoCycle
    /\ wire = <<>>
    /\ published = <<>>
    /\ sse_thread = 0
    /\ threads = [t \in 1..MaxThreads |-> NoThread]
    /\ caller = "idle"
    /\ life = "none"
    /\ callback = 0
    /\ awaiting = FALSE
    /\ malformed = 0
    /\ netPos = [p \in {CloseProducts[j] : j \in 1..Len(CloseProducts)} |-> 0]
    /\ resting = {}
    /\ ec = NoScript
    /\ ca = NoCancelAll
    /\ rest = NoRest
    /\ lastOrder = <<>>
    /\ pending = [t \in 1..MaxThreads |-> NoPending]
    /\ dispatched = <<>>

NextLedger == GetMarketTrades \/ VenueEmits

SpecLedger == Init /\ [][NextLedger]_vars

(***************************************************************************)
(* Claims about the trade ledger (checked under SpecLedger).               *)
(***************************************************************************)
\* A step of SpecLedger that leaves the venue alone is a get_market_trades()
\* call, and poll' describes it.
PollStep == venue' = venue

\* The trades of R strictly newer than w, in the order of R (all of R when
\* there is no watermark), computed by recursion on R.
RECURSIVE Newer(_, _)
Newer(R, w) ==
    IF R = <<>> THEN <<>>
    ELSE IF w = None \/ (R[1].timestamp # w /\ ~StrLess(R[1].timestamp, w))
         THEN <<R[1]>> \o Newer(Tail(R), w)
         ELSE Newer(Tail(R), w)

\* C1: a successful get_market_trades() call with watermark w and response R
\* leaves the ledger equal to the old ledger followed by exactly the elements
\* of R with timestamp strictly greater than w (all of R without a watermark),
\* in the order returned; the watermark becomes the timestamp of the last
\* appended trade, or stays when nothing is appended; a returned trade whose
\* timestamp equals w is not appended.
C1_PollAppendsStrictlyNewer ==
    [][(PollStep /\ poll'.outcome = "ok") =>
         LET R == poll'.response
             app == Newer(R, trade_watermark) IN
         /\ poll'.result = "returned"
         /\ trades' = trades \o app
         /\ SubSeq(trades', 1, Len(trades)) = trades
         /\ trade_watermark' = IF app = <<>> THEN trade_watermark
                               ELSE app[Len(app)].timestamp
         /\ \A i \in 1..Len(R) :
               R[i].timestamp = trade_watermark =>
                  \A j \in (Len(trades) + 1)..Len(trades') : trades'[j] # R[i]
      ]_vars

\* C1 witness: the last call had a watermark, its response carried a trade at
\* exactly the watermark that the ledger never held, and a newer trade that was
\* appended.
C1_Witness ==
    /\ poll.outcome = "ok"
    /\ poll.from # None
    /\ trade_watermark # poll.from
    /\ \E i \in 1..Len(poll.response) :
          /\ poll.response[i].timestamp = poll.from
          /\ poll.response[i] \notin SeqSet(trades)
    /\ \E i \in 1..Len(poll.response) :
          /\ StrLess(poll.from, poll.response[i].timestamp)
          /\ trades[Len(trades)] = poll.response[i]

\* C2: get_market_trades() is idempotent: when the venue has emitted nothing
\* since the previous successful call, so that the response holds only trades
\* at or below the watermark (the boundary trade included), the call leaves the
\* ledger and the watermark unchanged.
C2_PollIdempotent ==
    [][(/\ PollStep
        /\ poll'.outcome = "ok"
        /\ ~newSincePoll
        /\ \A i \in 1..Len(poll'.response) :
              /\ trade_watermark # None
              /\ StrLeq(poll'.response[i].timestamp, trade_watermark))
       => (trades' = trades /\ trade_watermark' = trade_watermark)
      ]_vars

\* C2 witness: a second successful call, nothing emitted in between, asked from
\* the watermark and was sent the boundary trade again; the watermark is still
\* the 'from' it asked with and the ledger holds the boundary trade once.
C2_Witness ==
    /\ poll.outcome = "ok"
    /\ ~newSincePoll
    /\ venueOrdered /\ venueComplete
    /\ poll.from # None
    /\ poll.from = trade_watermark
    /\ poll.response # <<>>
    /\ \A i \in 1..Len(poll.response) : poll.response[i].timestamp = poll.from
    /\ Cardinality({i \in 1..Len(trades) : trades[i] = poll.response[1]}) = 1

NoDuplicates == \A i \in 1..Len(trades) : \A j \in 1..Len(trades) :
                    trades[i] = trades[j] => i = j

\* C3 as stated: the venue never emits two identical trades (venue is a set and
\* a response repeats none), and the ledger never holds two identical entries.
C3_LedgerNeverDuplicates == NoDuplicates

\* C3 as amended: the same, provided every poll was answered in non-decreasing
\* timestamp order.
C3_NoDuplicatesWhenOrdered == venueOrdered => NoDuplicates

\* C3 witness: the venue kept the order, sent an already stored trade again
\* together with a newer one, and the ledger holds several entries.
C3_Witness ==
    /\ venueOrdered
    /\ poll.outcome = "ok"
    /\ poll.from # None
    /\ Len(trades) >= 2
    /\ Len(poll.response) >= 2
    /\ poll.response[1].timestamp = poll.from
    /\ trades[Len(trades)] = poll.response[Len(poll.response)]
    /\ \E i \in 1..(Len(trades) - 1) : trades[i] = poll.response[1]

\* C4: the ledger is gap-free: against a venue that answers every poll with all
\* its trades at or after the lower bound, in non-decreasing timestamp order,
\* after a successful call every trade the venue has emitted with a timestamp
\* at or below the watermark is in the ledger.
C4_LedgerGapFree ==
    (/\ venueOrdered
     /\ venueComplete
     /\ poll.outcome = "ok"
     /\ ~newSincePoll
     /\ trade_watermark # None)
    => \A t \in venue : StrLeq(t.timestamp, trade_watermark) => t \in SeqSet(trades)

\* C5: on a transport failure (a response that is not ok, or a raised
\* connection error) get_market_trades() returns the ledger with contents and
\* watermark as before the call and does not raise.
C5_FailedPollReturnsUnchanged ==
    [][(PollStep /\ poll'.outcome \in {"http_error", "conn_error"}) =>
         /\ trades' = trades
         /\ trade_watermark' = trade_watermark
         /\ poll'.result = "returned"
      ]_vars

(***************************************************************************)
(* BaseBot.send_order and BaseBot.send_orders: one thread per order runs   *)
(* _send; the caller starts them all, then joins them all.                 *)
(***************************************************************************)
Legs == 1..so_n

\* A thread that has left _send: by returning, or by an exception that ends
\* the thread (threading reports it and the joiner sees a finished thread).
Finished(k) == leg[k] = "done"

\* The OrderResponse of leg k of the current batch.
Response(k) == [batch |-> so_batch, leg |-> k]

\* send_orders is entered with a list of n orders (bot.py 287-295): a fresh
\* local 'results', and n threads created, none started.
SendOrders(n) ==
    /\ so_pc.phase \in {"idle", "returned"}
    /\ so_pc' = [phase |-> "start", i |-> 1]
    /\ so_n' = n
    /\ so_batch' = 1 - so_batch
    /\ leg' = [k \in 1..MaxLegs |-> IF k <= n THEN "created" ELSE "none"]
    /\ legOutcome' = [k \in 1..MaxLegs |-> "none"]
    /\ results' = <<>>
    /\ so_result' = "none"
    /\ UNCHANGED nonDispatchVars

\* bot.py 296-297: for t in threads: t.start()
StartThread ==
    /\ so_pc.phase = "start"
    /\ so_pc.i <= so_n
    /\ leg' = [leg EXCEPT ![so_pc.i] = "running"]
    /\ so_pc' = [so_pc EXCEPT !.i = @ + 1]
    /\ UNCHANGED <<so_n, so_batch, legOutcome, results, so_result>>
    /\ UNCHANGED nonDispatchVars

\* the first loop is over; the second begins.
StartsDone ==
    /\ so_pc.phase = "start"
    /\ so_pc.i > so_n
    /\ so_pc' = [phase |-> "join", i |-> 1]
    /\ UNCHANGED <<so_n, so_batch, leg, legOutcome, results, so_result>>
    /\ UNCHANGED nonDispatchVars

\* bot.py 298-299: t.join() has no timeout: it returns once the thread is over
\* (and the variant that does not wait).
JoinReadyMutantNoWait(k) == TRUE
JoinReady(k) == Finished(k)

JoinThread ==
    /\ so_pc.phase = "join"
    /\ so_pc.i <= so_n
    /\ JoinReady(so_pc.i)
    /\ so_pc' = [so_pc EXCEPT !.i = @ + 1]
    /\ UNCHANGED <<so_n, so_batch, leg, legOutcome, results, so_result>>
    /\ UNCHANGED nonDispatchVars

\* bot.py 300: return results
SendOrdersReturns ==
    /\ so_pc.phase = "join"
    /\ so_pc.i > so_n
    /\ so_pc' = [phase |-> "returned", i |-> 0]
    /\ so_result' = "returned"
    /\ UNCHANGED <<so_n, so_batch, leg, legOutcome, results>>
    /\ UNCHANGED nonDispatchVars

\* _send after send_order (bot.py 291-293, 282-285): a response object is
\* appended, None (a response that is not ok) is not (and the variant without
\* the test 'if r').
AfterSendOrderMutantNoTest(outcome) == "got_r"
AfterSendOrder(outcome) == IF outcome = "ok" THEN "got_r" ELSE "done"

\* bot.py 277-285 in thread k: the POST comes back, ok or not.
SendOrderResponds(k, outcome) ==
    /\ leg[k] = "running"
    /\ legOutcome' = [legOutcome EXCEPT ![k] = outcome]
    /\ leg' = [leg EXCEPT ![k] = AfterSendOrder(outcome)]
    /\ UNCHANGED <<so_pc, so_n, so_batch, results, so_result>>
    /\ UNCHANGED nonDispatchVars

\* bot.py 277-283 in thread k: requests.post or OrderResponse(**...) raises;
\* the exception ends the thread and reaches no other thread.
SendOrderRaises(k) ==
    /\ leg[k] = "running"
    /\ legOutcome' = [legOutcome EXCEPT ![k] = "error"]
    /\ leg' = [leg EXCEPT ![k] = "done"]
    /\ UNCHANGED <<so_pc, so_n, so_batch, results, so_result>>
    /\ UNCHANGED nonDispatchVars

\* bot.py 277: the POST has no timeout; a leg whose request never completes
\* stays in it for ever.
SendOrderHangs(k) ==
    /\ leg[k] = "running"
    /\ legOutcome' = [legOutcome EXCEPT ![k] = "hung"]
    /\ leg' = [leg EXCEPT ![k] = "hung"]
    /\ UNCHANGED <<so_pc, so_n, so_batch, results, so_result>>
    /\ UNCHANGED nonDispatchVars

\* bot.py 293: results.append(r); list.append is one atomic step of the
\* interpreter.
AppendResult(k) ==
    /\ leg[k] = "got_r"
    /\ results' = Append(results, Response(k))
    /\ leg' = [leg EXCEPT ![k] = "done"]
    /\ UNCHANGED <<so_pc, so_n, so_batch, legOutcome, so_result>>
    /\ UNCHANGED nonDispatchVars

NextDispatch ==
    \/ \E n \in 0..MaxLegs : SendOrders(n)
    \/ StartThread
    \/ StartsDone
    \/ JoinThread
    \/ SendOrdersReturns
    \/ \E k \in Legs : \E outcome \in {"ok", "rejected"} : SendOrderResponds(k, outcome)
    \/ \E k \in Legs : SendOrderRaises(k)
    \/ \E k \in Legs : SendOrderHangs(k)
    \/ \E k \in Legs : AppendResult(k)

SpecDispatch == Init /\ [][NextDispatch]_vars

\* C6: a send_orders() batch of N requests of which K fail returns, under every
\* interleaving of its legs, exactly the N-K successful responses, each once,
\* none from outside the batch, and does not raise.
C6_ReturnsExactlyTheSuccesses ==
    so_pc.phase = "returned" =>
        /\ so_result = "returned"
        /\ SeqSet(results) = {Response(k) : k \in {j \in Legs : legOutcome[j] = "ok"}}
        /\ Len(results) = Cardinality({j \in Legs : legOutcome[j] = "ok"})
        /\ Len(results) = so_n - Cardinality({j \in Legs : legOutcome[j] \in {"rejected", "error"}})

\* C6 witness: a batch of three or more legs has returned; a leg was rejected,
\* a leg raised, and the successes came back in an order other than the input's.
C6_Witness ==
    /\ so_pc.phase = "returned"
    /\ so_n >= 3
    /\ \E k \in Legs : legOutcome[k] = "rejected"
    /\ \E k \in Legs : legOutcome[k] = "error"
    /\ Len(results) >= 2
    /\ results[1].leg > results[2].leg

\* C7: send_orders() returns only after every leg has completed or failed: when
\* it has returned no leg is still in flight, and while a leg hangs it has not
\* returned.
C7_ReturnsAfterEveryLeg ==
    /\ so_pc.phase = "returned" => \A k \in Legs : Finished(k)
    /\ (\E k \in Legs : leg[k] \in {"created", "running", "got_r", "hung"})
          => so_pc.phase # "returned"

\* C7 witness: the caller waits in join on a leg that hangs, every other leg
\* being over.
C7_Witness ==
    /\ so_pc.phase = "join"
    /\ so_n >= 2
    /\ \E k \in Legs : /\ leg[k] = "hung"
                       /\ so_pc.i = k
                       /\ \A j \in Legs \ {k} : Finished(j)

(***************************************************************************)
(* The order-book event of the stream and _SSEThread._on_order_event.      *)
(* A wire price map is the sequence of its items in iteration order; its   *)
(* keys are strings, which float() turns into prices.                      *)
(***************************************************************************)
\* float(price) on the price keys the events of the model carry.
FloatTable ==
    {<<"9", 9>>, <<"10", 10>>, <<"10.0", 10>>, <<"11", 11>>, <<"21", 21>>,
     <<"30", 30>>, <<"31", 31>>, <<"50", 50>>, <<"52", 52>>, <<"80", 80>>,
     <<"81", 81>>, <<"84", 84>>, <<"85", 85>>, <<"95", 95>>, <<"97", 97>>,
     <<"99", 99>>, <<"100", 100>>, <<"101", 101>>, <<"102", 102>>}

Float(key) == (CHOOSE e \in FloatTable : e[1] = key)[2]

Level(key, marketVolume, userVolume) ==
    [key |-> key, marketVolume |-> marketVolume, userVolume |-> userVolume]

Event(product, buyOrders, sellOrders) ==
    [productsymbol |-> product, tickSize |-> 1,
     buyOrders |-> buyOrders, sellOrders |-> sellOrders]

\* One-level sides at the given price keys.
Quote(product, bidKey, askKey) ==
    Event(product, <<Level(bidKey, 5, 0)>>, <<Level(askKey, 4, 0)>>)

\* The events the venue may send.  M1 is quoted 50 / 52, or with two levels a
\* side (100, 99 / 101, 102) in either iteration order, or with an empty buy
\* side; M3 is quoted 30 / 31 and M5 10 / 11, so with M1 at 50 / 52 the
\* synthetic bid is 90 and the synthetic ask 94.  M7 is quoted above, below and
\* between them, at the two thresholds, crossed, and with an empty sell side.
\* M2, which the strategy does not trade, writes one price under two keys.
WireEvents ==
    {Event(MARKET_1, <<Level("99", 10, 0), Level("100", 5, 0)>>,
                     <<Level("102", 6, 0), Level("101", 4, 0)>>),
     Event(MARKET_1, <<Level("100", 5, 0), Level("99", 10, 0)>>,
                     <<Level("101", 4, 0), Level("102", 6, 0)>>),
     Quote(MARKET_1, "50", "52"),
     Event(MARKET_1, <<>>, <<Level("52", 4, 0)>>),
     Event("M2", <<Level("10.0", 5, 0), Level("10", 3, 1)>>, <<Level("21", 4, 0)>>),
     Quote(MARKET_3, "30", "31"),
     Event(MARKET_5, <<Level("10.0", 5, 0), Level("9", 1, 1)>>, <<Level("11", 4, 0)>>),
     Quote(MARKET_7, "101", "102"),   \* spread_1 = 7
     Quote(MARKET_7, "99", "100"),    \* spread_1 = 5
     Quote(MARKET_7, "95", "97"),     \* spread_1 = 1, spread_2 = -7
     Quote(MARKET_7, "84", "85"),     \* spread_2 = 5
     Quote(MARKET_7, "80", "81"),     \* spread_2 = 9
     Quote(MARKET_7, "101", "81"),    \* crossed: spread_1 = 7, spread_2 = 9
     Event(MARKET_7, <<Level("101", 5, 0)>>, <<>>)}

\* bot.py 167, 174: Order(price=float(price), volume=..., own_volume=...)
ToOrder(l) ==
    [price |-> Float(l.key), volume |-> l.marketVolume, own_volume |-> l.userVolume]

\* sorted(..., key=lambda o: sign * o.price): Python's sort is stable.  (And
\* the variant that keeps the iteration order of the map.)
SortedOrdersMutantUnsorted(L, sign) == L

RECURSIVE InsertOrder(_, _, _)
InsertOrder(o, S, sign) ==
    IF S = <<>> THEN <<o>>
    ELSE IF sign * o.price < sign * Head(S).price THEN <<o>> \o S
    ELSE <<Head(S)>> \o InsertOrder(o, Tail(S), sign)

RECURSIVE SortedOrders(_, _)
SortedOrders(L, sign) ==
    IF L = <<>> THEN <<>>
    ELSE InsertOrder(L[Len(L)], SortedOrders(SubSeq(L, 1, Len(L) - 1), sign), sign)

\* bot.py 164-179: the OrderBook handed to handle_orderbook.
OrderBookOf(data) ==
    [product |-> data.productsymbol,
     tick_size |-> data.tickSize,
     buy_orders |-> SortedOrders([i \in 1..Len(data.buyOrders) |-> ToOrder(data.buyOrders[i])], -1),
     sell_orders |-> SortedOrders([i \in 1..Len(data.sellOrders) |-> ToOrder(data.sellOrders[i])], 1)]

(***************************************************************************)
(* ETFArbitrageBot: prices read from a store 'books'.                      *)
(***************************************************************************)
\* bot.py 400-405
get_best_bid(books, product) ==
    IF product \notin DOMAIN books THEN NoPrice
    ELSE IF books[product].buy_orders # <<>> THEN Some(books[product].buy_orders[1].price)
    ELSE NoPrice

\* bot.py 407-412 (and the variant that answers 0 for an empty side)
get_best_askMutantZeroWhenEmpty(books, product) ==
    IF product \notin DOMAIN books THEN NoPrice
    ELSE IF books[product].sell_orders # <<>> THEN Some(books[product].sell_orders[1].price)
    ELSE Some(0)
get_best_ask(books, product) ==
    IF product \notin DOMAIN books THEN NoPrice
    ELSE IF books[product].sell_orders # <<>> THEN Some(books[product].sell_orders[1].price)
    ELSE NoPrice

\* A float that is a ratio of two integers.
Ratio(num, den) == [num |-> num, den |-> den]

\* bot.py 414-420: (bid + ask) / 2 (and the variant with // for /)
get_mid_priceMutantFloorDiv(books, product) ==
    LET bid == get_best_bid(books, product)
        ask == get_best_ask(books, product) IN
    IF bid = NoPrice \/ ask = NoPrice THEN NoPrice
    ELSE Some(Ratio((bid[1] + ask[1]) \div 2, 1))
get_mid_price(books, product) ==
    LET bid == get_best_bid(books, product)
        ask == get_best_ask(books, product) IN
    IF bid = NoPrice \/ ask = NoPrice THEN NoPrice
    ELSE Some(Ratio(bid[1] + ask[1], 2))

\* bot.py 422-431
get_synthetic_etf_bid(books) ==
    LET bid_1 == get_best_bid(books, MARKET_1)
        bid_3 == get_best_bid(books, MARKET_3)
        bid_5 == get_best_bid(books, MARKET_5) IN
    IF NoPrice \in {bid_1, bid_3, bid_5} THEN NoPrice
    ELSE Some(bid_1[1] + bid_3[1] + bid_5[1])

\* bot.py 433-442
get_synthetic_etf_ask(books) ==
    LET ask_1 == get_best_ask(books, MARKET_1)
        ask_3 == get_best_ask(books, MARKET_3)
        ask_5 == get_best_ask(books, MARKET_5) IN
    IF NoPrice \in {ask_1, ask_3, ask_5} THEN NoPrice
    ELSE Some(ask_1[1] + ask_3[1] + ask_5[1])

OrderRequest(product, price, side, volume) ==
    [product |-> product, price |-> price, side |-> side, volume |-> volume]

\* Mutant of execute_arbitrage_etf_overpriced: the ETF leg is priced at the
\* best ask instead of the best bid.
execute_arbitrage_etf_overpricedMutantSellAtAsk(books) ==
    LET ask_1 == get_best_ask(books, MARKET_1)
        ask_3 == get_best_ask(books, MARKET_3)
        ask_5 == get_best_ask(books, MARKET_5)
        ask_7 == get_best_ask(books, MARKET_7) IN
    IF NoPrice \in {ask_1, ask_3, ask_5, ask_7} THEN <<>>
    ELSE << <<OrderRequest(MARKET_1, ask_1[1], "BUY", ORDER_SIZE),
              OrderRequest(MARKET_3, ask_3[1], "BUY", ORDER_SIZE),
              OrderRequest(MARKET_5, ask_5[1], "BUY", ORDER_SIZE),
              OrderRequest(MARKET_7, ask_7[1], "SELL", ORDER_SIZE)>> >>

\* bot.py 498-518: the batches execute_arbitrage_etf_overpriced hands to
\* send_orders(): one, or none when a price is missing.
execute_arbitrage_etf_overpriced(books) ==
    LET ask_1 == get_best_ask(books, MARKET_1)
        ask_3 == get_best_ask(books, MARKET_3)
        ask_5 == get_best_ask(books, MARKET_5)
        bid_7 == get_best_bid(books, MARKET_7) IN
    IF NoPrice \in {ask_1, ask_3, ask_5, bid_7} THEN <<>>
    ELSE << <<OrderRequest(MARKET_1, ask_1[1], "BUY", ORDER_SIZE),
              OrderRequest(MARKET_3, ask_3[1], "BUY", ORDER_SIZE),
              OrderRequest(MARKET_5, ask_5[1], "BUY", ORDER_SIZE),
              OrderRequest(MARKET_7, bid_7[1], "SELL", ORDER_SIZE)>> >>

\* bot.py 520-540
execute_arbitrage_etf_underpriced(books) ==
    LET ask_7 == get_best_ask(books, MARKET_7)
        bid_1 == get_best_bid(books, MARKET_1)
        bid_3 == get_best_bid(books, MARKET_3)
        bid_5 == get_best_bid(books, MARKET_5) IN
    IF NoPrice \in {ask_7, bid_1, bid_3, bid_5} THEN <<>>
    ELSE << <<OrderRequest(MARKET_7, ask_7[1], "BUY", ORDER_SIZE),
              OrderRequest(MARKET_1, bid_1[1], "SELL", ORDER_SIZE),
              OrderRequest(MARKET_3, bid_3[1], "SELL", ORDER_SIZE),
              OrderRequest(MARKET_5, bid_5[1], "SELL", ORDER_SIZE)>> >>

(***************************************************************************)
(* BaseBot.get_positions and ETFArbitrageBot.check_arbitrage.              *)
(***************************************************************************)
\* The net positions the exchange may hold for the user: none, and long or
\* short just beyond the last size from which one more order fits.
PosValues == {-(MAX_POSITION - ORDER_SIZE + 1), 0, MAX_POSITION - ORDER_SIZE + 1}

\* bot.py 327-334: the dict of the response when it is ok, {} when it is not.
get_positions(posOutcome) ==
    IF posOutcome = "ok" THEN [p \in Required |-> exPos[p]] ELSE EmptyDict

\* positions.get(product, 0)  (bot.py 469-472)
PositionOf(positions, product) ==
    IF product \in DOMAIN positions THEN positions[product] ELSE 0

Abs(x) == IF x < 0 THEN -x ELSE x

\* bot.py 477-480
LimitsOverpriced(positions) ==
    /\ Abs(PositionOf(positions, MARKET_1) + ORDER_SIZE) <= MAX_POSITION
    /\ Abs(PositionOf(positions, MARKET_3) + ORDER_SIZE) <= MAX_POSITION
    /\ Abs(PositionOf(positions, MARKET_5) + ORDER_SIZE) <= MAX_POSITION
    /\ Abs(PositionOf(positions, MARKET_7) - ORDER_SIZE) <= MAX_POSITION

\* bot.py 487-490
LimitsUnderpriced(positions) ==
    /\ Abs(PositionOf(positions, MARKET_1) - ORDER_SIZE) <= MAX_POSITION
    /\ Abs(PositionOf(positions, MARKET_3) - ORDER_SIZE) <= MAX_POSITION
    /\ Abs(PositionOf(positions, MARKET_5) - ORDER_SIZE) <= MAX_POSITION
    /\ Abs(PositionOf(positions, MARKET_7) + ORDER_SIZE) <= MAX_POSITION

\* bot.py 462, 466 (and the variant of spread_2 with its operands swapped)
Spread1(books) == get_best_bid(books, MARKET_7)[1] - get_synthetic_etf_ask(books)[1]
Spread2MutantSwapped(books) == get_best_ask(books, MARKET_7)[1] - get_synthetic_etf_bid(books)[1]
Spread2(books) == get_synthetic_etf_bid(books)[1] - get_best_ask(books, MARKET_7)[1]

\* bot.py 457: a leg without a price
MissingPrice(books) ==
    NoPrice \in {get_best_bid(books, MARKET_7), get_best_ask(books, MARKET_7),
              get_synthetic_etf_bid(books), get_synthetic_etf_ask(books)}

\* bot.py 475, 485: spread > self.MIN_SPREAD (and the variant with >=).
SpreadSufficientMutantGeq(spread) == spread >= MIN_SPREAD
SpreadSufficient(spread) == spread > MIN_SPREAD

\* bot.py 475, 485: if spread_1 > MIN_SPREAD ... elif spread_2 > MIN_SPREAD ...;
\* 'over' and 'under' are what the two branches send (and the variant with a
\* second 'if' for the 'elif').
ArbitrageBranchesMutantIfIf(spread_1, over, under) == over \o under
ArbitrageBranches(spread_1, over, under) ==
    IF SpreadSufficient(spread_1) THEN over ELSE under

\* bot.py 446, 495-496: try: ... except Exception as e: print(...).  Whether
\* an exception raised in the body leaves check_arbitrage.
ExceptException(raisedInBody) == FALSE

\* bot.py 444-496: the batches one check_arbitrage() call hands to
\* send_orders().  An exception raised by the position fetch is caught at 495.
check_arbitrage(books, posOutcome) ==
    IF posOutcome = "raised" THEN <<>>
    ELSE IF MissingPrice(books) THEN <<>>
    ELSE LET positions == get_positions(posOutcome)
             over == IF SpreadSufficient(Spread1(books)) /\ LimitsOverpriced(positions)
                     THEN execute_arbitrage_etf_overpriced(books) ELSE <<>>
             under == IF SpreadSufficient(Spread2(books)) /\ LimitsUnderpriced(positions)
                      THEN execute_arbitrage_etf_underpriced(books) ELSE <<>>
         IN  ArbitrageBranches(Spread1(books), over, under)

\* d[k] = v on a dict (bot.py 390), and the variant that patches an entry
\* already there, keeping its buy side.
PutMutantKeepsBuySide(d, k, v) ==
    [x \in DOMAIN d \cup {k} |->
        IF x # k THEN d[x]
        ELSE IF k \in DOMAIN d THEN [v EXCEPT !.buy_orders = d[k].buy_orders]
        ELSE v]
Put(d, k, v) == [x \in DOMAIN d \cup {k} |-> IF x = k THEN v ELSE d[x]]

\* bot.py 393: all(m in self.orderbooks for m in [M1, M3, M5, M7]) (and the
\* variant with any for all).
AllPresentMutantAny(books) == \E m \in Required : m \in DOMAIN books
AllPresent(books) == \A m \in Required : m \in DOMAIN books

\* bot.py 388-394: on_orderbook stores the book and, with all four required
\* books present, runs check_arbitrage; posOutcome is how the position fetch
\* of check_arbitrage ends.
on_orderbook(orderbook, posOutcome) ==
    LET books == Put(orderbooks, orderbook.product, orderbook) IN
    /\ orderbooks' = books
    /\ cycle' = IF AllPresent(books)
                THEN [seq |-> 1 - cycle.seq, evaluated |-> TRUE,
                      posOutcome |-> posOutcome,
                      batches |-> check_arbitrage(books, posOutcome),
                      escaped |-> ExceptException(posOutcome = "raised")]
                ELSE [seq |-> 1 - cycle.seq, evaluated |-> FALSE,
                      posOutcome |-> "none", batches |-> <<>>,
                      escaped |-> FALSE]
    /\ UNCHANGED exPos

\* bot.py 164-179 and 388-394: one order event of the stream, handled in the
\* consumer thread from the sort to the return of on_orderbook.
OnOrderEvent(data, posOutcome) ==
    /\ on_orderbook(OrderBookOf(data), posOutcome)
    /\ UNCHANGED nonStrategyVars

\* The exchange changes the user's net position of a product (fills).
PositionChanges ==
    /\ \E p \in Required : \E v \in PosValues \ {exPos[p]} :
          exPos' = [exPos EXCEPT ![p] = v]
    /\ UNCHANGED <<orderbooks, cycle>>
    /\ UNCHANGED nonStrategyVars

NextStrategy ==
    \/ \E data \in WireEvents : \E posOutcome \in {"ok", "http_error", "raised"} :
          OnOrderEvent(data, posOutcome)
    \/ PositionChanges

SpecStrategy == Init /\ [][NextStrategy]_vars

(***************************************************************************)
(* _SSEThread._on_order_event on every price map of a side: the items of   *)
(* the map in each iteration order, under keys of which two ("10" and      *)
(* "10.0") are the same number to float().                                 *)
(***************************************************************************)
PriceKeys == {"9", "10", "10.0"}

\* The value the map holds under a key.
LevelAt(key) ==
    CASE key = "9" -> Level(key, 10, 0)
      [] key = "10" -> Level(key, 5, 0)
      [] OTHER -> Level(key, 3, 1)

\* A price map is a dict: its keys are distinct strings.
PriceMaps ==
    LET keySeqs == UNION {[1..n -> PriceKeys] : n \in 0..MaxLevels} IN
    {[i \in 1..Len(ks) |-> LevelAt(ks[i])] :
        ks \in {q \in keySeqs : \A i, j \in 1..Len(q) : q[i] = q[j] => i = j}}

\* Events of M2 with every price map on either side, and two events of M1:
\* buy levels 100 and 99 with sell levels 101 and 102, and one without sell
\* levels.
BookEvents ==
    {Event("M2", b, a) : b \in PriceMaps, a \in PriceMaps}
      \cup {Event(MARKET_1, <<Level("99", 10, 0), Level("100", 5, 0)>>,
                            <<Level("101", 4, 0), Level("102", 6, 0)>>),
            Event(MARKET_1, <<LevelAt("10"), LevelAt("9")>>, <<>>)}

\* bot.py 164-179 and 388-394: the event is turned into an OrderBook, which
\* is handed to on_orderbook.
OrderEventPublishes(data, posOutcome) ==
    /\ wire' = <<data>>
    /\ published' = <<OrderBookOf(data)>>
    /\ on_orderbook(OrderBookOf(data), posOutcome)
    /\ UNCHANGED nonStrategyBookVars

NextBook ==
    \E data \in BookEvents : \E posOutcome \in {"ok", "http_error", "raised"} :
        OrderEventPublishes(data, posOutcome)

SpecBook == Init /\ [][NextBook]_vars

(***************************************************************************)
(* BaseBot.start / stop and _SSEThread.run / close / _consume.  start()    *)
(* and stop() are called from one caller thread; each _SSEThread runs in   *)
(* its own thread, in parallel with it.                                    *)
(***************************************************************************)
Threads == 1..MaxThreads

\* The order events the venue streams here: two books of M2.
StreamEvents == {Quote("M2", "9", "10"), Quote("M2", "10", "11")}

\* bot.py 210: if self._sse_thread (and the variant without the test)
AlreadyRunningMutantNever(t) == FALSE
AlreadyRunning(t) == t # 0

\* bot.py 209-218: start().  auth_token is a cached property: its request can
\* fail only until it has succeeded once, which is before the first thread.
Start(outcome) ==
    /\ caller = "idle"
    /\ IF AlreadyRunning(sse_thread)
       THEN /\ life' = "already_running"            \* raise RuntimeError
            /\ UNCHANGED <<sse_thread, threads>>
       ELSE /\ \E t \in Threads :
                 /\ threads[t].pc = "unborn"
                 /\ \A u \in Threads : u < t => threads[u].pc # "unborn"
                 /\ IF outcome = "auth_error"
                    THEN /\ t = 1
                         /\ life' = "auth_error"   \* raised by auth_token
                         /\ UNCHANGED <<sse_thread, threads>>
                    ELSE /\ threads' = [threads EXCEPT ![t] = NewThread]
                         /\ sse_thread' = t
                         /\ life' = "started"
    /\ UNCHANGED <<caller, callback, awaiting, malformed>>
    /\ UNCHANGED nonStreamVars

\* bot.py 139-144: close() sets the flag and closes the stream the thread
\* refers to at that moment, if there is one.
Close(th) ==
    [th EXCEPT !.closed = TRUE,
               !.http_stream = IF @ = "open" THEN "closed" ELSE @]

\* bot.py 221-222: stop() up to the call of join.
StopCloses ==
    /\ caller = "idle"
    /\ sse_thread # 0
    /\ threads' = [threads EXCEPT ![sse_thread] = Close(@)]
    /\ caller' = "joining"
    /\ life' = "none"
    /\ awaiting' = FALSE
    /\ UNCHANGED malformed
    /\ UNCHANGED <<sse_thread, callback>>
    /\ UNCHANGED nonStreamVars

\* bot.py 223: join(timeout=5) returns when the thread has ended, or after 5
\* seconds, which can pass while the thread is blocked in requests.get or in
\* reading the stream.
JoinEnds(th) == th.pc = "exited" \/ th.pc \in {"connecting", "streaming"}

\* bot.py 223-224: join returns and stop() forgets the thread.
StopReturns ==
    /\ caller = "joining"
    /\ JoinEnds(threads[sse_thread])
    /\ sse_thread' = 0
    /\ caller' = "idle"
    /\ UNCHANGED <<threads, life, callback, awaiting, malformed>>
    /\ UNCHANGED nonStreamVars

\* bot.py 129: while not self._closed; with the flag clear, _consume() is
\* called and starts requests.get (153).
LoopTest(t) ==
    /\ threads[t].pc = "loop"
    /\ threads' = [threads EXCEPT ![t].pc = IF threads[t].closed THEN "exited"
                                            ELSE "connecting"]
    /\ UNCHANGED <<sse_thread, caller, life, callback, awaiting, malformed>>
    /\ UNCHANGED nonStreamVars

\* bot.py 153-156: requests.get returns a response; it becomes _http_stream,
\* wrapped by _client, and the thread waits for the first event.
ConnectOk(t) ==
    /\ threads[t].pc = "connecting"
    /\ threads' = [threads EXCEPT ![t].pc = "streaming", ![t].http_stream = "open"]
    /\ UNCHANGED <<sse_thread, caller, life, callback, awaiting, malformed>>
    /\ UNCHANGED nonStreamVars

\* bot.py 130-137: where run() goes on after an exception of _consume() (and
\* the variant in which the exception ends run()).
AfterExceptionMutantExit == "exited"
AfterException == "loop"

\* bot.py 153, 132-137: requests.get raises (refused, timed out).
ConnectFails(t) ==
    /\ threads[t].pc = "connecting"
    /\ threads' = [threads EXCEPT ![t].pc = AfterException]
    /\ UNCHANGED <<sse_thread, caller, life, callback, awaiting, malformed>>
    /\ UNCHANGED nonStreamVars

\* events() cannot read another event from a stream that was closed.
CanRead(th) == th.pc = "streaming" /\ th.http_stream = "open"

\* bot.py 156-158 and 164-179, 388-394: an "order" event is read and handled.
StreamOrderEvent(t, data, posOutcome) ==
    /\ CanRead(threads[t])
    /\ on_orderbook(OrderBookOf(data), posOutcome)
    /\ callback' = 1 - callback
    /\ awaiting' = IF t = sse_thread THEN FALSE ELSE awaiting
    /\ UNCHANGED malformed
    /\ UNCHANGED <<sse_thread, threads, caller, life>>
    /\ UNCHANGED nonStrategyStreamVars

\* bot.py 159-164, 396-398: a "trade" event is read and handed to on_trades,
\* which does nothing.
StreamTradeEvent(t) ==
    /\ CanRead(threads[t])
    /\ callback' = 1 - callback
    /\ UNCHANGED <<sse_thread, threads, caller, life, awaiting, malformed>>
    /\ UNCHANGED nonStreamVars

\* bot.py 156, 130-137: reading the stream raises (connection reset, read
\* timeout, or the stream was closed by close()) or the stream ends.
StreamBreaks(t) ==
    /\ threads[t].pc = "streaming"
    /\ threads' = [threads EXCEPT ![t].pc = AfterException,
                                  ![t].http_stream = "closed"]
    /\ awaiting' = IF t = sse_thread /\ ~threads[t].closed THEN TRUE ELSE awaiting
    /\ UNCHANGED malformed
    /\ UNCHANGED <<sse_thread, caller, life, callback>>
    /\ UNCHANGED nonStreamVars

\* The ways an inbound event can be malformed (bot.py 154-162, 164-179):
\* "order": json.loads raises, or _on_order_event raises KeyError on a missing
\* field (line 166-179), before _handle_orderbook is reached; "trade": json.loads
\* raises, or the only trade of the event lacks a field and Trade(**...) raises
\* TypeError; "trade_list": the event is a list whose first trade is well formed
\* and whose second lacks a field, so on_trades has run once when line 162 raises.
MalformedKinds == {"order", "trade", "trade_list"}

\* bot.py 162: the calls of _handle_trade_event made before the exception.
CallbacksBeforeRaise(kind) == IF kind = "trade_list" THEN 1 ELSE 0

\* bot.py 154-162, 128-137: a malformed event is read.  The exception leaves
\* the for loop and _consume; run() catches it (except Exception), prints, and
\* goes back to the test of its while loop.  self._http_stream still refers to
\* the response it was reading, which nothing has closed.
StreamMalformedEvent(t, kind) ==
    /\ CanRead(threads[t])
    /\ malformed' = 1 - malformed
    /\ callback' = IF CallbacksBeforeRaise(kind) = 1 THEN 1 - callback ELSE callback
    /\ threads' = [threads EXCEPT ![t].pc = AfterException]
    /\ UNCHANGED <<sse_thread, caller, life, awaiting>>
    /\ UNCHANGED nonStreamVars

NextStream ==
    \/ \E outcome \in {"ok", "auth_error"} : Start(outcome)
    \/ StopCloses
    \/ StopReturns
    \/ \E t \in Threads : LoopTest(t)
    \/ \E t \in Threads : ConnectOk(t)
    \/ \E t \in Threads : ConnectFails(t)
    \/ \E t \in Threads : \E data \in StreamEvents :
          \E posOutcome \in {"ok", "http_error", "raised"} :
             StreamOrderEvent(t, data, posOutcome)
    \/ \E t \in Threads : StreamTradeEvent(t)
    \/ \E t \in Threads : StreamBreaks(t)

SpecStream == Init /\ [][NextStream]_vars

\* The consumer thread is scheduled, and the venue accepts connections and
\* sends order events again and again.
SpecStreamFair ==
    /\ SpecStream
    /\ \A t \in Threads :
          /\ WF_vars(LoopTest(t))
          /\ SF_vars(ConnectOk(t))
          /\ SF_vars(\E data \in StreamEvents : StreamOrderEvent(t, data, "ok"))

\* The same with the events whose handling raises.
NextConsumer ==
    \/ NextStream
    \/ \E t \in Threads : \E kind \in MalformedKinds : StreamMalformedEvent(t, kind)

SpecConsumer == Init /\ [][NextConsumer]_vars

\* The consumer threads are scheduled.
SpecConsumerFair ==
    /\ SpecConsumer
    /\ \A t \in Threads : WF_vars(LoopTest(t))

(***************************************************************************)
(* emergency_close.py: the script that closes every position, and the REST *)
(* helpers of BaseBot it calls (bot.py 276-358).                           *)
(***************************************************************************)
CloseProductSet == {CloseProducts[j] : j \in 1..Len(CloseProducts)}
OrderIds == 1..MaxOrders

\* What a REST helper did with a response: fn the helper, outcome how the
\* request went, raised whether an exception reached the caller, returned the
\* kind of value handed back ("value", "empty" for [] and {}, "None" for None
\* and for nothing).
RestCall(fn, outcome, raised, returned) ==
    [fn |-> fn, outcome |-> outcome, raised |-> raised, returned |-> returned]

\* The outcomes of a request: a 2xx response, another response, or an
\* exception of requests (connection refused, reset).
Outcomes == {"ok", "http_error", "raised"}

\* The listing of a set of orders, by ascending id.
RECURSIVE SeqOfIds(_)
SeqOfIds(S) ==
    IF S = {} THEN <<>>
    ELSE LET m == CHOOSE x \in S : \A y \in S : x <= y IN <<m>> \o SeqOfIds(S \ {m})

\* bot.py 313-320: response.json() if response.ok else []
get_orders(outcome) == IF outcome = "ok" THEN SeqOfIds(resting) ELSE <<>>

\* bot.py 327-334, as the closer's user sees it: the dict of the response
\* when it is ok, {} when it is not.
FetchPositions(outcome) ==
    IF outcome = "ok" THEN [p \in CloseProductSet |-> netPos[p]] ELSE EmptyDict

\* emergency_close.py 37, 45: sorted(open_positions.items()), the items whose
\* position is not 0.
RECURSIVE SortedOpenFrom(_, _)
SortedOpenFrom(positions, j) ==
    IF j > Len(CloseProducts) THEN <<>>
    ELSE LET p == CloseProducts[j] IN
         (IF p \in DOMAIN positions /\ positions[p] # 0
          THEN <<[product |-> p, net_pos |-> positions[p]]>> ELSE <<>>)
         \o SortedOpenFrom(positions, j + 1)

SortedOpen(positions) == SortedOpenFrom(positions, 1)

\* The entries of an order-book response, and the responses of the venue for
\* a product: each side empty or two levels, not in price order.
BookEntry(price) == [price |-> price, volume |-> 5, userOrderVolume |-> 0]

BookData(product) ==
    {[product |-> product, tickSize |-> 1, buy |-> b, sell |-> s] :
        b \in {<<>>, <<BookEntry(9), BookEntry(10)>>},
        s \in {<<>>, <<BookEntry(12), BookEntry(11)>>}}

\* bot.py 336-351, after raise_for_status() let the response through.
get_orderbook(data) ==
    LET order(e) == [price |-> e.price, volume |-> e.volume, own_volume |-> e.userOrderVolume] IN
    [product |-> data.product,
     tick_size |-> data.tickSize,
     buy_orders |-> SortedOrders([i \in 1..Len(data.buy) |-> order(data.buy[i])], -1),
     sell_orders |-> SortedOrders([i \in 1..Len(data.sell) |-> order(data.sell[i])], 1)]

\* emergency_close.py 49-75: the order for one open position, or none when
\* the opposing side of the book is empty.
ClosingOrder(ob, item) ==
    IF item.net_pos > 0
    THEN IF ob.buy_orders # <<>>
         THEN <<OrderRequest(item.product, ob.buy_orders[1].price, "SELL", Abs(item.net_pos))>>
         ELSE <<>>
    ELSE IF ob.sell_orders # <<>>
         THEN <<OrderRequest(item.product, ob.sell_orders[1].price, "BUY", Abs(item.net_pos))>>
         ELSE <<>>

\* Positions were opened and orders left resting before the script is run.
TradedBefore(pos, ids) ==
    /\ ec.pc = "unstarted"
    /\ <<pos, ids>> # <<netPos, resting>>
    /\ netPos' = pos
    /\ resting' = ids
    /\ UNCHANGED <<ec, ca, rest, lastOrder>>
    /\ UNCHANGED nonCloseVars

\* emergency_close.py 23-30: the script is run and enters its loop.
EcStart ==
    /\ ec.pc = "unstarted"
    /\ ec' = [ec EXCEPT !.pc = "cancel"]
    /\ UNCHANGED <<netPos, resting, ca, rest, lastOrder>>
    /\ UNCHANGED nonCloseVars

\* bot.py 305-307 (called at emergency_close.py 32 and 86): get_orders(), and
\* one thread created per order of the listing.  An exception of get_orders
\* ends the script.
CancelAllOrders(outcome) ==
    /\ ec.pc \in {"cancel", "final_cancel"}
    /\ ca.phase \in {"idle", "returned"}
    /\ rest' = RestCall("get_orders", outcome, outcome = "raised",
                        IF outcome = "raised" THEN "None"
                        ELSE IF get_orders(outcome) = <<>> THEN "empty" ELSE "value")
    /\ IF outcome = "raised"
       THEN /\ ec' = [ec EXCEPT !.pc = "crashed"]
            /\ ca' = NoCancelAll
       ELSE /\ ca' = [phase |-> "start", orders |-> get_orders(outcome), i |-> 1,
                      st |-> [k \in OrderIds |->
                                 IF k <= Len(get_orders(outcome)) THEN "created" ELSE "none"],
                      out |-> [k \in OrderIds |-> "none"]]
            /\ ec' = ec
    /\ UNCHANGED <<netPos, resting, lastOrder>>
    /\ UNCHANGED nonCloseVars

\* bot.py 308-309: for t in threads: t.start()
CancelStartThread ==
    /\ ca.phase = "start"
    /\ ca.i <= Len(ca.orders)
    /\ ca' = [ca EXCEPT !.st[ca.i] = "running", !.i = @ + 1]
    /\ UNCHANGED <<netPos, resting, ec, rest, lastOrder>>
    /\ UNCHANGED nonCloseVars

CancelStartsDone ==
    /\ ca.phase = "start"
    /\ ca.i > Len(ca.orders)
    /\ ca' = [ca EXCEPT !.phase = "join", !.i = 1]
    /\ UNCHANGED <<netPos, resting, ec, rest, lastOrder>>
    /\ UNCHANGED nonCloseVars

\* bot.py 302-303, run by thread k for the k-th order of the listing:
\* requests.delete, whose response nobody looks at.  The exchange removes the
\* order when it answers ok; an exception of requests ends the thread.
CancelOrderRuns(k, outcome) ==
    /\ ca.st[k] = "running"
    /\ ca' = [ca EXCEPT !.st[k] = "done", !.out[k] = outcome]
    /\ resting' = IF outcome = "ok" THEN resting \ {ca.orders[k]} ELSE resting
    /\ rest' = RestCall("cancel_order", outcome, outcome = "raised", "None")
    /\ UNCHANGED <<netPos, ec, lastOrder>>
    /\ UNCHANGED nonCloseVars

\* bot.py 310-311: t.join() returns when thread t has ended.  (And the
\* variant that does not wait.)
CancelJoinReadyMutantNoWait(k) == TRUE
CancelJoinReady(k) == ca.st[k] = "done"

CancelJoinThread ==
    /\ ca.phase = "join"
    /\ ca.i <= Len(ca.orders)
    /\ CancelJoinReady(ca.i)
    /\ ca' = [ca EXCEPT !.i = @ + 1]
    /\ UNCHANGED <<netPos, resting, ec, rest, lastOrder>>
    /\ UNCHANGED nonCloseVars

\* bot.py 311: the second loop is over and cancel_all_orders returns, to
\* emergency_close.py 33 or 88.
CancelAllReturns ==
    /\ ca.phase = "join"
    /\ ca.i > Len(ca.orders)
    /\ ca' = [ca EXCEPT !.phase = "returned", !.i = 0]
    /\ ec' = [ec EXCEPT !.pc = IF @ = "cancel" THEN "fetch" ELSE "final_fetch"]
    /\ UNCHANGED <<netPos, resting, rest, lastOrder>>
    /\ UNCHANGED nonCloseVars

\* emergency_close.py 36-43: fresh positions; with none open the script
\* prints "ALL POSITIONS CLOSED" and leaves the loop.  (The locals of the
\* cancel_all_orders call that came before are gone.)
EcFetch(outcome) ==
    /\ ec.pc = "fetch"
    /\ rest' = RestCall("get_positions", outcome, outcome = "raised",
                        IF outcome = "ok" THEN "value"
                        ELSE IF outcome = "raised" THEN "None" ELSE "empty")
    /\ ec' = IF outcome = "raised" THEN [ec EXCEPT !.pc = "crashed"]
             ELSE IF SortedOpen(FetchPositions(outcome)) = <<>>
             THEN [ec EXCEPT !.pc = "final_cancel", !.reported = TRUE]
             ELSE [ec EXCEPT !.pc = "orderbook",
                             !.open = SortedOpen(FetchPositions(outcome)), !.i = 1]
    /\ ca' = NoCancelAll
    /\ UNCHANGED <<netPos, resting, lastOrder>>
    /\ UNCHANGED nonCloseVars

\* emergency_close.py 45-51, 60-65, 74-80: the order book of the next open
\* position.  get_orderbook raises for a response that is not ok
\* (raise_for_status, bot.py 341); the except clause of the loop body prints
\* and the for loop goes on.  With nothing on the opposing side the script
\* prints that it cannot trade.
EcGetOrderbook(outcome, data) ==
    /\ ec.pc = "orderbook"
    /\ ec.i <= Len(ec.open)
    /\ data.product = ec.open[ec.i].product
    /\ rest' = RestCall("get_orderbook", outcome, outcome # "ok",
                        IF outcome = "ok" THEN "value" ELSE "None")
    /\ ec' = IF outcome = "ok" /\ ClosingOrder(get_orderbook(data), ec.open[ec.i]) # <<>>
             THEN [ec EXCEPT !.pc = "send", !.ob = <<get_orderbook(data)>>]
             ELSE [ec EXCEPT !.i = @ + 1]
    /\ UNCHANGED <<netPos, resting, ca, lastOrder>>
    /\ UNCHANGED nonCloseVars

\* The id the exchange gives an order that rests: the lowest one free (0 when
\* the user can have no more resting orders).
FreeId == IF OrderIds \ resting = {} THEN 0
          ELSE CHOOSE x \in OrderIds \ resting : \A y \in OrderIds \ resting : x <= y

\* emergency_close.py 52-58, 66-72 with bot.py 276-285: the closing order is
\* sent.  The exchange fills 'filled' of it at once and changes the net
\* position; what is not filled rests.  A response that is not ok makes
\* send_order return None; an exception goes to the except clause.
EcSendOrder(outcome, filled) ==
    /\ ec.pc = "send"
    /\ LET item == ec.open[ec.i]
           order == ClosingOrder(ec.ob[1], item)[1] IN
       /\ lastOrder' = <<[order |-> order, net_pos |-> item.net_pos, ob |-> ec.ob[1]]>>
       /\ rest' = RestCall("send_order", outcome, outcome = "raised",
                           IF outcome = "ok" THEN "value" ELSE "None")
       /\ IF outcome = "ok"
          THEN /\ filled \in 0..order.volume
               /\ filled < order.volume => FreeId # 0
               /\ netPos' = [netPos EXCEPT ![item.product] =
                                IF order.side = "SELL" THEN @ - filled ELSE @ + filled]
               /\ resting' = IF filled < order.volume THEN resting \cup {FreeId} ELSE resting
               /\ ec' = IF filled < order.volume
                        THEN [ec EXCEPT !.pc = "cancel_rest", !.ob = <<>>, !.resp = FreeId]
                        ELSE [ec EXCEPT !.pc = "orderbook", !.ob = <<>>, !.i = @ + 1]
          ELSE /\ filled = 0
               /\ ec' = [ec EXCEPT !.pc = "orderbook", !.ob = <<>>, !.i = @ + 1]
               /\ UNCHANGED <<netPos, resting>>
    /\ UNCHANGED ca
    /\ UNCHANGED nonCloseVars

\* emergency_close.py 58-59, 72-73 with bot.py 302-303: the remainder of a
\* partly filled order is cancelled.
EcCancelRemainder(outcome) ==
    /\ ec.pc = "cancel_rest"
    /\ resting' = IF outcome = "ok" THEN resting \ {ec.resp} ELSE resting
    /\ rest' = RestCall("cancel_order", outcome, outcome = "raised", "None")
    /\ ec' = [ec EXCEPT !.pc = "orderbook", !.resp = 0, !.i = @ + 1]
    /\ UNCHANGED <<netPos, ca, lastOrder>>
    /\ UNCHANGED nonCloseVars

\* emergency_close.py 45, 82, 30: the for loop is over; sleep, next round.
EcNextRound ==
    /\ ec.pc = "orderbook"
    /\ ec.i > Len(ec.open)
    /\ ec' = [ec EXCEPT !.pc = "cancel", !.open = <<>>, !.i = 0]
    /\ lastOrder' = <<>>
    /\ UNCHANGED <<netPos, resting, ca, rest>>
    /\ UNCHANGED nonCloseVars

\* emergency_close.py 88-95: the final state is printed.
EcFinalFetch(outcome) ==
    /\ ec.pc = "final_fetch"
    /\ rest' = RestCall("get_positions", outcome, outcome = "raised",
                        IF outcome = "ok" THEN "value"
                        ELSE IF outcome = "raised" THEN "None" ELSE "empty")
    /\ ec' = [ec EXCEPT !.pc = IF outcome = "raised" THEN "crashed" ELSE "pnl"]
    /\ ca' = NoCancelAll
    /\ UNCHANGED <<netPos, resting, lastOrder>>
    /\ UNCHANGED nonCloseVars

\* emergency_close.py 97-101 with bot.py 353-358: response.json() if
\* response.ok else {}
EcGetPnl(outcome) ==
    /\ ec.pc = "pnl"
    /\ rest' = RestCall("get_pnl", outcome, outcome = "raised",
                        IF outcome = "ok" THEN "value"
                        ELSE IF outcome = "raised" THEN "None" ELSE "empty")
    /\ ec' = [ec EXCEPT !.pc = IF outcome = "raised" THEN "crashed" ELSE "done"]
    /\ UNCHANGED <<netPos, resting, ca, lastOrder>>
    /\ UNCHANGED nonCloseVars

NextClose ==
    \/ \E pos \in [CloseProductSet -> -MaxOpen..MaxOpen] : \E ids \in SUBSET OrderIds :
          TradedBefore(pos, ids)
    \/ EcStart
    \/ \E outcome \in Outcomes : CancelAllOrders(outcome)
    \/ CancelStartThread
    \/ CancelStartsDone
    \/ \E k \in OrderIds : \E outcome \in Outcomes : CancelOrderRuns(k, outcome)
    \/ CancelJoinThread
    \/ CancelAllReturns
    \/ \E outcome \in Outcomes : EcFetch(outcome)
    \/ \E outcome \in Outcomes : \E p \in CloseProductSet : \E data \in BookData(p) :
          EcGetOrderbook(outcome, data)
    \/ \E outcome \in Outcomes : \E filled \in 0..MaxOpen : EcSendOrder(outcome, filled)
    \/ \E outcome \in Outcomes : EcCancelRemainder(outcome)
    \/ EcNextRound
    \/ \E outcome \in Outcomes : EcFinalFetch(outcome)
    \/ \E outcome \in Outcomes : EcGetPnl(outcome)

SpecClose == Init /\ [][NextClose]_vars

(***************************************************************************)
(* on_orderbook as the consumers run it: check_arbitrage reads the prices  *)
(* and computes the spreads, prints, and then the execute method reads the *)
(* prices again from self.orderbooks.  Every consumer that start() created *)
(* calls the on_orderbook of the same bot.                                 *)
(***************************************************************************)
\* The order events of this part: the component books M1 50 / 52, M3 30 / 31,
\* M5 10 / 11 and two ETF books, M7 101 / 102 and M7 95 / 97.
RaceEvents ==
    {Quote(MARKET_1, "50", "52"), Quote(MARKET_3, "30", "31"),
     Quote(MARKET_5, "10", "11"), Quote(MARKET_7, "101", "102"),
     Quote(MARKET_7, "95", "97")}

\* bot.py 457-493: the branch whose execute method check_arbitrage calls.
Decision(books, positions) ==
    IF MissingPrice(books) THEN "none"
    ELSE IF SpreadSufficient(Spread1(books))
         THEN (IF LimitsOverpriced(positions) THEN "over" ELSE "none")
    ELSE IF SpreadSufficient(Spread2(books)) /\ LimitsUnderpriced(positions)
         THEN "under"
    ELSE "none"

\* bot.py 156-158, 164-179, 388-394, 444-493: consumer t reads an "order"
\* event, stores the book and, with all four books present, fetches the
\* positions, reads the prices and decides; up to the print before the call
\* of the execute method.
CallbackEvaluates(t, data) ==
    /\ CanRead(threads[t])
    /\ pending[t] = NoPending
    /\ LET books == Put(orderbooks, OrderBookOf(data).product, OrderBookOf(data))
           d == IF AllPresent(books) THEN Decision(books, get_positions("ok")) ELSE "none" IN
       /\ orderbooks' = books
       /\ pending' = [pending EXCEPT ![t] =
                         IF d = "none" THEN NoPending
                         ELSE [direction |-> d,
                               spread |-> IF d = "over" THEN Spread1(books)
                                          ELSE Spread2(books)]]
    /\ UNCHANGED <<exPos, cycle, dispatched>>
    /\ UNCHANGED nonStrategyRaceVars

\* bot.py 483, 493, 498-518, 520-540: the execute method consumer t decided
\* on reads the best prices from self.orderbooks and builds its batch.
CallbackDispatches(t) ==
    /\ pending[t] # NoPending
    /\ dispatched' = <<[direction |-> pending[t].direction,
                        spread |-> pending[t].spread,
                        batches |-> IF pending[t].direction = "over"
                                    THEN execute_arbitrage_etf_overpriced(orderbooks)
                                    ELSE execute_arbitrage_etf_underpriced(orderbooks)]>>
    /\ pending' = [pending EXCEPT ![t] = NoPending]
    /\ UNCHANGED strategyVars
    /\ UNCHANGED nonStrategyRaceVars

\* bot.py 156, 130-137: the stream of a consumer that is not inside a callback
\* breaks or ends.
CallbackReturnsThenBreaks(t) ==
    /\ pending[t] = NoPending
    /\ StreamBreaks(t)

NextRace ==
    \/ \E outcome \in {"ok", "auth_error"} : Start(outcome)
    \/ StopCloses
    \/ StopReturns
    \/ \E t \in Threads : LoopTest(t)
    \/ \E t \in Threads : ConnectOk(t)
    \/ \E t \in Threads : CallbackReturnsThenBreaks(t)
    \/ \E t \in Threads : \E data \in RaceEvents : CallbackEvaluates(t, data)
    \/ \E t \in Threads : CallbackDispatches(t)

SpecRace == Init /\ [][NextRace]_vars

(***************************************************************************)
(* Claims about the strategy (checked under SpecStrategy).                 *)
(***************************************************************************)
\* A step of SpecStrategy that is an on_orderbook() call; cycle' describes it
\* and exPos is the exchange's position at its position read.
CycleStep == cycle'.seq # cycle.seq

Direction(side) == IF side = "BUY" THEN 1 ELSE -1

\* C8: whenever the strategy submits a batch, for every leg the exchange's net
\* position of the leg's product at the position read of that cycle, changed by
\* ORDER_SIZE in the leg's direction, is at most MAX_POSITION in absolute
\* value; in both scenarios, and also when the position fetch fails.
C8_LegsWithinPositionCap ==
    [][CycleStep =>
         \A b \in 1..Len(cycle'.batches) : \A l \in 1..Len(cycle'.batches[b]) :
            LET o == cycle'.batches[b][l] IN
            Abs(exPos[o.product] + Direction(o.side) * ORDER_SIZE) <= MAX_POSITION
      ]_vars

\* C9: the strategy neither evaluates the spread nor dispatches until each of
\* M1, M3, M5, M7 has a snapshot; an order-book update arriving while one is
\* missing only stores the snapshot.
C9_NoEvaluationUntilAllBooks ==
    [][CycleStep =>
         /\ (cycle'.evaluated \/ cycle'.batches # <<>> \/ cycle'.posOutcome # "none")
               => Required \subseteq DOMAIN orderbooks'
         /\ ~(Required \subseteq DOMAIN orderbooks') =>
               /\ ~cycle'.evaluated
               /\ cycle'.batches = <<>>
               /\ \E p \in Products :
                     /\ DOMAIN orderbooks' = DOMAIN orderbooks \cup {p}
                     /\ \A q \in DOMAIN orderbooks \ {p} : orderbooks'[q] = orderbooks[q]
      ]_vars

\* C9 witness: three of the four required books are stored, with prices that
\* would trigger once the fourth is there (M7 bid 101 against a synthetic
\* ask of 94), and the last cycle did not evaluate.
C9_Witness ==
    /\ DOMAIN orderbooks \cap Required = {MARKET_1, MARKET_3, MARKET_7}
    /\ get_best_bid(orderbooks, MARKET_7) = Some(101)
    /\ get_best_ask(orderbooks, MARKET_1) = Some(52)
    /\ ~cycle.evaluated
    /\ cycle.seq = 1

IsOverBatch(b) == b[4].product = MARKET_7 /\ b[4].side = "SELL"
IsUnderBatch(b) == b[1].product = MARKET_7 /\ b[1].side = "BUY"

\* The checks of the two branches on the state the cycle leaves: prices from
\* the store, the limits on the positions the fetch returned.
OverPasses(books, positions) ==
    ~MissingPrice(books) /\ Spread1(books) > MIN_SPREAD /\ LimitsOverpriced(positions)
UnderPasses(books, positions) ==
    ~MissingPrice(books) /\ Spread2(books) > MIN_SPREAD /\ LimitsUnderpriced(positions)

\* C10 as stated: at most one batch per on_orderbook call; if either spread
\* passes its check (above MIN_SPREAD, its limits satisfied) one batch is
\* dispatched; when both spreads exceed MIN_SPREAD the overpriced branch is the
\* one executed and the underpriced one is not.
C10_OneBatchIfEitherPasses ==
    [][(CycleStep /\ cycle'.evaluated /\ cycle'.posOutcome # "raised") =>
         LET books == orderbooks'
             positions == get_positions(cycle'.posOutcome) IN
         /\ Len(cycle'.batches) <= 1
         /\ (OverPasses(books, positions) \/ UnderPasses(books, positions))
               => Len(cycle'.batches) = 1
         /\ (~MissingPrice(books) /\ Spread1(books) > MIN_SPREAD
                                  /\ Spread2(books) > MIN_SPREAD)
               => \A b \in 1..Len(cycle'.batches) : IsOverBatch(cycle'.batches[b])
      ]_vars

\* C10 as amended: at most one batch per on_orderbook call.  The overpriced
\* batch is dispatched exactly when spread_1 > MIN_SPREAD and its limits hold;
\* the underpriced batch exactly when spread_1 <= MIN_SPREAD, spread_2 >
\* MIN_SPREAD and its limits hold.  So when both spreads exceed MIN_SPREAD only
\* the overpriced branch can run, and nothing is dispatched when its limits fail
\* even if the underpriced check would pass; nor when a required book is
\* missing or the position fetch raises.
C10_AtMostOneBatchOverFirst ==
    [][CycleStep =>
         LET books == orderbooks'
             positions == get_positions(cycle'.posOutcome)
             sent == cycle'.batches
             read == cycle'.evaluated /\ cycle'.posOutcome # "raised" IN
         /\ Len(sent) <= 1
         /\ (\E b \in 1..Len(sent) : IsOverBatch(sent[b])) <=>
               (read /\ OverPasses(books, positions))
         /\ (\E b \in 1..Len(sent) : IsUnderBatch(sent[b])) <=>
               (/\ read
                /\ UnderPasses(books, positions)
                /\ ~(Spread1(books) > MIN_SPREAD))
      ]_vars

\* C10 witness: books crossed so that both spreads exceed MIN_SPREAD, positions
\* fetched and within both limits, and the one batch sent is the overpriced one.
C10_Witness ==
    /\ cycle.evaluated
    /\ cycle.posOutcome = "ok"
    /\ ~MissingPrice(orderbooks)
    /\ Spread1(orderbooks) > MIN_SPREAD
    /\ Spread2(orderbooks) > MIN_SPREAD
    /\ LimitsOverpriced(exPos) /\ LimitsUnderpriced(exPos)
    /\ Len(cycle.batches) = 1
    /\ IsOverBatch(cycle.batches[1])

(***************************************************************************)
(* Claims C11 - C16: the legs of a batch, the threshold, missing prices,   *)
(* the published book and the price readers.                               *)
(***************************************************************************)
\* The prices of one side of a stored book, whatever the order of its levels.
PricesOf(orders) == {orders[i].price : i \in 1..Len(orders)}
HighestPrice(orders) == CHOOSE x \in PricesOf(orders) : \A y \in PricesOf(orders) : y <= x
LowestPrice(orders) == CHOOSE x \in PricesOf(orders) : \A y \in PricesOf(orders) : x <= y

Components == {MARKET_1, MARKET_3, MARKET_5}

\* The four legs of a batch: one per product, each of ORDER_SIZE, the products
\* of buySide bought at the lowest sell price of their book and the others
\* sold at the highest buy price of theirs.
FourLegs(legs, books, buySide) ==
    /\ Len(legs) = 4
    /\ \A p \in Required : Cardinality({k \in 1..Len(legs) : legs[k].product = p}) = 1
    /\ \A k \in 1..Len(legs) :
          /\ legs[k].volume = ORDER_SIZE
          /\ legs[k].product \in Required
          /\ IF legs[k].product \in buySide
             THEN /\ legs[k].side = "BUY"
                  /\ books[legs[k].product].sell_orders # <<>>
                  /\ legs[k].price = LowestPrice(books[legs[k].product].sell_orders)
             ELSE /\ legs[k].side = "SELL"
                  /\ books[legs[k].product].buy_orders # <<>>
                  /\ legs[k].price = HighestPrice(books[legs[k].product].buy_orders)

\* C11: a cycle that finds a qualifying opportunity makes exactly one
\* send_orders() call, with exactly four legs, one per M1, M3, M5, M7, each of
\* volume ORDER_SIZE: overpriced buys M1, M3, M5 at their best asks and sells M7
\* at its best bid; underpriced buys M7 at its best ask and sells M1, M3, M5 at
\* their best bids.  No cycle makes a second call, so no leg is sent again.
C11_OneBatchOfFourLegs ==
    [][CycleStep =>
         LET books == orderbooks'
             positions == get_positions(cycle'.posOutcome)
             sent == cycle'.batches
             read == cycle'.evaluated /\ cycle'.posOutcome # "raised" IN
         /\ Len(sent) <= 1
         /\ \A b \in 1..Len(sent) :
               \/ FourLegs(sent[b], books, Components)
               \/ FourLegs(sent[b], books, {MARKET_7})
         /\ (read /\ OverPasses(books, positions))
               => Len(sent) = 1 /\ FourLegs(sent[1], books, Components)
         /\ (read /\ UnderPasses(books, positions) /\ ~(Spread1(books) > MIN_SPREAD))
               => Len(sent) = 1 /\ FourLegs(sent[1], books, {MARKET_7})
      ]_vars

\* C11 witness: an underpriced batch was sent while M1's book has two levels a
\* side, so its best bid is not the only price of the side.
C11_Witness ==
    /\ Len(cycle.batches) = 1
    /\ FourLegs(cycle.batches[1], orderbooks, {MARKET_7})
    /\ Len(orderbooks[MARKET_1].buy_orders) = 2

\* The two spreads from the levels of the stored books: the highest ETF buy
\* price less the lowest sell prices of the components, and the highest buy
\* prices of the components less the lowest ETF sell price.
BothSidesQuoted(books) ==
    /\ Required \subseteq DOMAIN books
    /\ \A p \in Required : books[p].buy_orders # <<>> /\ books[p].sell_orders # <<>>
SpreadOver(books) ==
    HighestPrice(books[MARKET_7].buy_orders)
      - LowestPrice(books[MARKET_1].sell_orders)
      - LowestPrice(books[MARKET_3].sell_orders)
      - LowestPrice(books[MARKET_5].sell_orders)
SpreadUnder(books) ==
    HighestPrice(books[MARKET_1].buy_orders)
      + HighestPrice(books[MARKET_3].buy_orders)
      + HighestPrice(books[MARKET_5].buy_orders)
      - LowestPrice(books[MARKET_7].sell_orders)

\* Best bid / best ask of a product in a store with both sides quoted.
QuotedAt(books, p, bid, ask) ==
    /\ HighestPrice(books[p].buy_orders) = bid
    /\ LowestPrice(books[p].sell_orders) = ask

\* The books M1 50 / 52, M3 30 / 31, M5 10 / 11, M7 95 / 97.
ExampleBooks(books) ==
    /\ BothSidesQuoted(books)
    /\ QuotedAt(books, MARKET_1, 50, 52)
    /\ QuotedAt(books, MARKET_3, 30, 31)
    /\ QuotedAt(books, MARKET_5, 10, 11)
    /\ QuotedAt(books, MARKET_7, 95, 97)

\* C12: a batch is dispatched only if its spread is strictly greater than
\* MIN_SPREAD; a spread equal to or below MIN_SPREAD never triggers.  With the
\* books M1 50/52, M3 30/31, M5 10/11, M7 95/97 and MIN_SPREAD = 5 the spreads
\* are 1 and -7 and no order is dispatched.
C12_OnlyAboveMinSpread ==
    [][CycleStep =>
         LET books == orderbooks'
             sent == cycle'.batches IN
         /\ \A b \in 1..Len(sent) :
               /\ BothSidesQuoted(books)
               /\ IsOverBatch(sent[b]) => SpreadOver(books) > MIN_SPREAD
               /\ IsUnderBatch(sent[b]) => SpreadUnder(books) > MIN_SPREAD
               /\ IsOverBatch(sent[b]) \/ IsUnderBatch(sent[b])
         /\ (BothSidesQuoted(books) /\ SpreadOver(books) <= MIN_SPREAD
                                    /\ SpreadUnder(books) <= MIN_SPREAD)
               => sent = <<>>
         /\ ExampleBooks(books) =>
               /\ MIN_SPREAD = 5
               /\ SpreadOver(books) = 1
               /\ SpreadUnder(books) = -7
               /\ sent = <<>>
      ]_vars

\* C12 witness: the example books are stored, the cycle evaluated them with
\* positions that allow both directions, and nothing was sent.
C12_Witness ==
    /\ ExampleBooks(orderbooks)
    /\ cycle.evaluated /\ cycle.posOutcome = "ok"
    /\ LimitsOverpriced(exPos) /\ LimitsUnderpriced(exPos)
    /\ cycle.batches = <<>>

\* A required product whose latest snapshot has an empty buy or sell side.
LegWithoutPrice(books) ==
    \E p \in Required \cap DOMAIN books :
        books[p].buy_orders = <<>> \/ books[p].sell_orders = <<>>

\* C13: if a required leg lacks a price (the latest snapshot of M1, M3, M5 or
\* M7 has an empty buy side or an empty sell side), the cycle dispatches no
\* order and raises no error to the stream consumer.
C13_NoDispatchWithoutPrice ==
    [][(CycleStep /\ LegWithoutPrice(orderbooks')) =>
         /\ cycle'.batches = <<>>
         /\ ~cycle'.escaped
      ]_vars

\* C13 witness: all four books are stored, M7 has a bid of 101 (7 above the
\* synthetic ask of 94) but no sell level, the cycle evaluated with positions
\* read, and nothing was sent.
C13_Witness ==
    /\ Required \subseteq DOMAIN orderbooks
    /\ orderbooks[MARKET_7].sell_orders = <<>>
    /\ orderbooks[MARKET_7].buy_orders # <<>>
    /\ HighestPrice(orderbooks[MARKET_7].buy_orders) = 101
    /\ \A p \in Components : orderbooks[p].sell_orders # <<>>
    /\ LowestPrice(orderbooks[MARKET_1].sell_orders) = 52
    /\ cycle.evaluated /\ cycle.posOutcome = "ok"
    /\ LimitsOverpriced(exPos)
    /\ cycle.batches = <<>>

\* The orders the levels of a wire price map stand for, in iteration order.
OrdersOf(items) ==
    [i \in 1..Len(items) |->
        [price |-> Float(items[i].key), volume |-> items[i].marketVolume,
         own_volume |-> items[i].userVolume]]

\* The same levels, none added or lost: each occurs as often in one as in the
\* other.
Occurrences(S, x) == Cardinality({i \in 1..Len(S) : S[i] = x})
SameLevels(S, T) ==
    /\ Len(S) = Len(T)
    /\ \A i \in 1..Len(S) : Occurrences(S, S[i]) = Occurrences(T, S[i])

StrictlyDescending(orders) ==
    \A i \in 1..Len(orders) - 1 : orders[i].price > orders[i + 1].price
StrictlyAscending(orders) ==
    \A i \in 1..Len(orders) - 1 : orders[i].price < orders[i + 1].price
Descending(orders) ==
    \A i \in 1..Len(orders) - 1 : orders[i].price >= orders[i + 1].price
Ascending(orders) ==
    \A i \in 1..Len(orders) - 1 : orders[i].price <= orders[i + 1].price

\* No two keys of the price map are the same price.
DistinctPrices(items) ==
    \A i, j \in 1..Len(items) : Float(items[i].key) = Float(items[j].key) => i = j

IsBookOf(book, data) ==
    /\ book.product = data.productsymbol
    /\ book.tick_size = data.tickSize
    /\ SameLevels(OrdersOf(data.buyOrders), book.buy_orders)
    /\ SameLevels(OrdersOf(data.sellOrders), book.sell_orders)
    /\ Descending(book.buy_orders)
    /\ Ascending(book.sell_orders)

\* C15: the store is last-write-wins per product.  An event for p replaces
\* p's entry wholesale by the book of that event and leaves the entries of all
\* other products unchanged (absent if they were absent); before any event the
\* store is empty.  So in every state, which is every state a reader may read
\* the store in, an entry is the whole book of the most recent event for its
\* product, never levels of two snapshots.
C15_StoreLastWriteWins ==
    /\ [](wire = <<>> => DOMAIN orderbooks = {})
    /\ [](wire # <<>> =>
            /\ wire[1].productsymbol \in DOMAIN orderbooks
            /\ IsBookOf(orderbooks[wire[1].productsymbol], wire[1]))
    /\ [][wire' # wire \/ orderbooks' # orderbooks =>
             LET p == wire'[1].productsymbol IN
             /\ DOMAIN orderbooks' = DOMAIN orderbooks \cup {p}
             /\ IsBookOf(orderbooks'[p], wire'[1])
             /\ \A q \in DOMAIN orderbooks \ {p} : orderbooks'[q] = orderbooks[q]
        ]_vars

\* C15 witness: the store holds M1 and M2, and the last event, for M2, had
\* two levels on either side.
C15_Witness ==
    /\ DOMAIN orderbooks = {MARKET_1, "M2"}
    /\ wire # <<>>
    /\ wire[1].productsymbol = "M2"
    /\ Len(wire[1].buyOrders) = 2 /\ Len(wire[1].sellOrders) = 2
    /\ orderbooks[MARKET_1].sell_orders = <<>>

\* The price readers on the store, as a caller sees them.
BestBidIs(books, p) ==
    IF p \in DOMAIN books /\ books[p].buy_orders # <<>>
    THEN get_best_bid(books, p) = <<HighestPrice(books[p].buy_orders)>>
    ELSE get_best_bid(books, p) = <<>>
BestAskIs(books, p) ==
    IF p \in DOMAIN books /\ books[p].sell_orders # <<>>
    THEN get_best_ask(books, p) = <<LowestPrice(books[p].sell_orders)>>
    ELSE get_best_ask(books, p) = <<>>
MidPriceIs(books, p) ==
    IF /\ p \in DOMAIN books
       /\ books[p].buy_orders # <<>>
       /\ books[p].sell_orders # <<>>
    THEN LET mid == get_mid_price(books, p) IN
         /\ mid # <<>>
         /\ mid[1].den > 0
         /\ 2 * mid[1].num = (HighestPrice(books[p].buy_orders)
                                + LowestPrice(books[p].sell_orders)) * mid[1].den
    ELSE get_mid_price(books, p) = <<>>

\* M1 with buy levels (100, 5, 0), (99, 10, 0) and sell levels (101, 4, 0),
\* (102, 6, 0).
ExampleM1(books) ==
    /\ MARKET_1 \in DOMAIN books
    /\ SameLevels(books[MARKET_1].buy_orders,
                  <<[price |-> 100, volume |-> 5, own_volume |-> 0],
                    [price |-> 99, volume |-> 10, own_volume |-> 0]>>)
    /\ SameLevels(books[MARKET_1].sell_orders,
                  <<[price |-> 101, volume |-> 4, own_volume |-> 0],
                    [price |-> 102, volume |-> 6, own_volume |-> 0]>>)

\* C16: for any stored snapshot get_best_bid is the highest price among its
\* buy levels and get_best_ask the lowest among its sell levels, absent when
\* the product has no snapshot or the side is empty; get_mid_price is
\* (best bid + best ask) / 2, absent if either is absent.  For M1 with buy
\* levels 100, 99 and sell levels 101, 102 they are 100, 101 and 100.5.
C16_BestPricesAndMid ==
    /\ \A p \in Products :
          /\ BestBidIs(orderbooks, p)
          /\ BestAskIs(orderbooks, p)
          /\ MidPriceIs(orderbooks, p)
    /\ ExampleM1(orderbooks) =>
          /\ get_best_bid(orderbooks, MARKET_1) = <<100>>
          /\ get_best_ask(orderbooks, MARKET_1) = <<101>>
          /\ get_mid_price(orderbooks, MARKET_1) # <<>>
          /\ 10 * get_mid_price(orderbooks, MARKET_1)[1].num
                = 1005 * get_mid_price(orderbooks, MARKET_1)[1].den

\* C16 witness: the store holds the example book of M1 and a book of M2 with
\* three buy levels and no sell level.
C16_Witness ==
    /\ ExampleM1(orderbooks)
    /\ "M2" \in DOMAIN orderbooks
    /\ Len(orderbooks["M2"].buy_orders) = 3
    /\ orderbooks["M2"].sell_orders = <<>>

(***************************************************************************)
(* Claims C17 - C20: the lifecycle (checked under SpecStream, C20 under    *)
(* SpecStreamFair).                                                        *)
(***************************************************************************)
\* C17: start() while the bot is running fails with an error and creates no
\* second consumer or connection; the running consumer is left unchanged.
C17_StartWhileRunningFails ==
    [][(sse_thread # 0 /\ caller = "idle") =>
         /\ \A t \in Threads : threads[t].pc = "unborn" => threads'[t].pc = "unborn"
         /\ (life' # life /\ caller' = caller) =>      \* a start() call
               /\ life' = "already_running"
               /\ UNCHANGED <<sse_thread, threads, callback, orderbooks>>
      ]_vars

\* C17 witness: start() was refused while the consumer of the earlier start()
\* is streaming.
C17_Witness ==
    /\ life = "already_running"
    /\ sse_thread # 0
    /\ threads[sse_thread].pc = "streaming"
    /\ \A t \in Threads : t # sse_thread => threads[t].pc = "unborn"

\* The threads whose stop() has returned: those constructed that the bot no
\* longer refers to.
StopReturned == {t \in Threads : threads[t].pc # "unborn" /\ t # sse_thread}

\* C18: once stop() has returned, the streaming connection is closed and the
\* consumer has exited: no further order-book or trade callback is delivered
\* (while no other consumer has been started) and the consumer opens no new
\* connection, wherever it was when stop() was called.
C18_StoppedConsumerIsGone ==
    /\ [](\A t \in StopReturned :
             threads[t].pc = "exited" /\ threads[t].http_stream # "open")
    /\ [][(sse_thread = 0 /\ sse_thread' = 0) => callback' = callback]_vars
    /\ [][\A t \in StopReturned :
             threads[t].http_stream # "open" => threads'[t].http_stream # "open"
        ]_vars

\* C19: stop() does not clear state: its steps leave the order-book store,
\* the ledger and the watermark as they are, and while the bot is stopped the
\* store keeps the last snapshots published before stop().
C19_StopKeepsState ==
    /\ [][caller' # caller => UNCHANGED <<orderbooks, trades, trade_watermark>>]_vars
    /\ [][(StopReturned # {} /\ sse_thread = 0 /\ sse_thread' = 0) =>
             UNCHANGED <<orderbooks, trades, trade_watermark>>
        ]_vars

\* C20: after a connection reset or read timeout during streaming, with no
\* stop requested, the consumer goes back to connecting and nothing reaches
\* the caller of start(); and if the venue then accepts connections and sends
\* order events, the consumer eventually publishes again (unless it is asked
\* to stop).
C20_ReconnectsAndResumes ==
    /\ [][(~awaiting /\ awaiting') =>
             /\ threads'[sse_thread].pc = "loop"
             /\ life' = life /\ caller' = caller /\ sse_thread' = sse_thread
        ]_vars
    /\ \A t \in Threads :
          (awaiting /\ sse_thread = t /\ threads[t].pc = "loop")
             ~> (threads[t].pc = "connecting" \/ threads[t].closed)
    /\ awaiting ~> ~awaiting

\* C20 witness: the stream of the running consumer broke and it is connected
\* again, about to publish.
C20_Witness ==
    /\ sse_thread # 0
    /\ awaiting
    /\ ~threads[sse_thread].closed
    /\ threads[sse_thread].pc = "streaming"
    /\ threads[sse_thread].http_stream = "open"
    /\ orderbooks # EmptyDict


(***************************************************************************)
(* Claims about the consumer's failure handling and the one-consumer rule. *)
(***************************************************************************)

\* A consumer that is inside _consume: connecting or reading its stream.
InConsume(th) == th.pc \in {"connecting", "streaming"}

\* C21: run() of a consumer ends only when close() has set _closed.  Every way
\* out of _consume (requests.get raising, the stream breaking or ending, an
\* exception raised while an event is handled) goes back to the test of the
\* while loop, from which a consumer that is not closed only goes on to connect
\* again, and does so when it is scheduled.
C21_ExitsOnlyWhenStopped ==
    /\ [][\A t \in Threads :
             (threads[t].pc # "exited" /\ threads'[t].pc = "exited")
                => threads[t].closed]_vars
    /\ [][\A t \in Threads :
             (InConsume(threads[t]) /\ ~InConsume(threads'[t]))
                => threads'[t].pc = "loop"]_vars
    /\ [][\A t \in Threads :
             (threads[t].pc = "loop" /\ threads'[t].pc # "loop" /\ ~threads[t].closed)
                => threads'[t].pc = "connecting"]_vars
    /\ \A t \in Threads :
          (threads[t].pc = "loop" /\ ~threads[t].closed)
             ~> (threads[t].pc = "connecting" \/ threads[t].closed)

\* C21 witness: a consumer that nobody closed is connecting again after an
\* event's handling raised; the response it was reading is still open.
C21_Witness ==
    \E t \in Threads :
       /\ malformed = 1
       /\ threads[t].pc = "connecting"
       /\ threads[t].http_stream = "open"
       /\ ~threads[t].closed


\* The consumers whose run() has begun and not ended, and the consumers that
\* hold an open streaming connection.
LiveConsumers == {t \in Threads : threads[t].pc \notin {"unborn", "exited"}}
OpenConnections == {t \in Threads : threads[t].http_stream = "open"}

\* C22: at every moment the bot has at most one live consumer thread and at
\* most one open streaming connection, whatever start(), stop() and
\* reconnects came before, a stop() whose join timed out included.
C22_AtMostOneConsumer ==
    /\ Cardinality(LiveConsumers) <= 1
    /\ Cardinality(OpenConnections) <= 1


\* A step in which a consumer reads a malformed event.
MalformedStep == malformed' # malformed

\* C23: a malformed inbound event is dropped alone: the step that reads it
\* leaves the order-book store as it was, makes no callback, and leaves the
\* consumer reading the same stream, where it goes on with the next event.
C23_MalformedDroppedAlone ==
    [][MalformedStep =>
          /\ orderbooks' = orderbooks
          /\ callback' = callback
          /\ threads' = threads]_vars


(***************************************************************************)
(* Claims about the REST helpers and the emergency close.                  *)
(***************************************************************************)
\* C24: a REST helper other than authentication and product listing reports
\* a failed request (a response that is not ok) by returning None or an empty
\* value, never by an exception that reaches its caller.
C24_FailureIsAbsentOrEmpty ==
    rest.outcome = "http_error" => (~rest.raised /\ rest.returned \in {"None", "empty"})


\* A step in which one of the threads of cancel_all_orders ends.
CancelThreadEnds == \E k \in OrderIds : ca.st[k] = "running" /\ ca'.st[k] = "done"

\* C25: cancel_all_orders() runs one cancellation for each order of the
\* listing it fetched and none for anything else, starts them all before it
\* waits for any, and has returned only when each has been issued and has
\* ended; a cancellation that fails, by its response or by an exception,
\* changes nothing for the caller or for the other cancellations.
C25_CancelsEachListedOrderOnce ==
    /\ [](/\ \A j, k \in 1..Len(ca.orders) : ca.orders[j] = ca.orders[k] => j = k
          /\ \A k \in OrderIds : k > Len(ca.orders) => ca.out[k] = "none"
          /\ ca.phase = "join" => \A k \in 1..Len(ca.orders) : ca.st[k] # "created"
          /\ ca.phase = "returned"
                => \A k \in 1..Len(ca.orders) : ca.st[k] = "done" /\ ca.out[k] # "none")
    /\ [][CancelThreadEnds =>
             /\ ec' = ec
             /\ ca'.phase = ca.phase /\ ca'.i = ca.i /\ ca'.orders = ca.orders
             /\ \A k \in OrderIds : ca.st[k] = "done" => ca'.out[k] = ca.out[k]]_vars

\* C25 witness: cancel_all_orders has returned to the script after two
\* cancellations, the first of which raised while the second went through.
C25_Witness ==
    /\ ca.phase = "returned"
    /\ Len(ca.orders) = 2
    /\ ca.out[1] = "raised"
    /\ ca.out[2] = "ok"
    /\ ec.pc = "fetch"
    /\ resting = {ca.orders[1]}


\* Every product's net position on the exchange is zero.
AllFlat == \A p \in CloseProductSet : netPos[p] = 0

\* The order is the closing order of the position it was built from: the
\* opposite side, the whole size, and the best price of the opposing side of
\* the book that was fetched.
ClosesPosition(s) ==
    /\ s.order.volume = Abs(s.net_pos)
    /\ s.net_pos > 0 =>
          /\ s.order.side = "SELL"
          /\ \E j \in 1..Len(s.ob.buy_orders) : s.ob.buy_orders[j].price = s.order.price
          /\ \A j \in 1..Len(s.ob.buy_orders) : s.ob.buy_orders[j].price <= s.order.price
    /\ s.net_pos < 0 =>
          /\ s.order.side = "BUY"
          /\ \E j \in 1..Len(s.ob.sell_orders) : s.ob.sell_orders[j].price = s.order.price
          /\ \A j \in 1..Len(s.ob.sell_orders) : s.ob.sell_orders[j].price >= s.order.price

\* C26: the emergency close has left its loop and reported all positions
\* closed only when every net position on the exchange is zero, a failed
\* position fetch included; and each order it sends for an open position has
\* the opposite side, the position's absolute size and the best opposing price.
C26_ReportsClosedOnlyWhenFlat ==
    /\ ec.reported => AllFlat
    /\ lastOrder # <<>> => ClosesPosition(lastOrder[1])


(***************************************************************************)
(* Claims about the watermark, the two spreads and the dispatched prices.  *)
(***************************************************************************)
\* C27: the watermark is None exactly when the ledger is empty and is
\* otherwise the timestamp of the ledger's last entry; over any calls of
\* get_market_trades(), failed ones and responses in any order included, a
\* watermark that changes becomes, in str order, strictly greater than it was,
\* and never goes back to None.
C27_WatermarkIsLastAndGrows ==
    /\ []((trade_watermark = None) <=> (trades = <<>>))
    /\ [](trades # <<>> => trade_watermark = trades[Len(trades)].timestamp)
    /\ [][(trade_watermark' # trade_watermark /\ trade_watermark # None)
             => /\ trade_watermark' # None
                /\ StrLess(trade_watermark, trade_watermark')]_vars

\* C27 witness: a call that asked from a watermark got a response that is not
\* in timestamp order, and the watermark has moved on to the timestamp of the
\* ledger's last entry, which is not the latest timestamp of the ledger.
C27_Witness ==
    /\ poll.outcome = "ok"
    /\ poll.from # None
    /\ trade_watermark # poll.from
    /\ ~NonDecreasing(poll.response)
    /\ trade_watermark = trades[Len(trades)].timestamp
    /\ \E i \in 1..Len(trades) : StrLess(trade_watermark, trades[i].timestamp)


\* Every required book has both sides quoted and its best bid strictly below
\* its best ask.
Uncrossed(books) ==
    /\ BothSidesQuoted(books)
    /\ \A p \in Required :
          HighestPrice(books[p].buy_orders) < LowestPrice(books[p].sell_orders)

\* C28: with MIN_SPREAD not negative and every required book uncrossed, the
\* two spreads check_arbitrage computes never both exceed MIN_SPREAD, so the
\* precedence of the overpriced branch takes nothing from the underpriced one:
\* a cycle whose underpriced check passes dispatches the underpriced batch.
C28_UncrossedSpreadsExclusive ==
    /\ []((MIN_SPREAD >= 0 /\ Uncrossed(orderbooks))
             => ~(SpreadSufficient(Spread1(orderbooks))
                    /\ SpreadSufficient(Spread2(orderbooks))))
    /\ [][(/\ CycleStep /\ cycle'.evaluated /\ cycle'.posOutcome # "raised"
           /\ MIN_SPREAD >= 0 /\ Uncrossed(orderbooks')
           /\ UnderPasses(orderbooks', get_positions(cycle'.posOutcome)))
          => (Len(cycle'.batches) = 1 /\ IsUnderBatch(cycle'.batches[1]))]_vars

\* C28 witness: uncrossed books whose underpriced spread is above MIN_SPREAD
\* and whose overpriced spread is not; the underpriced batch was dispatched.
C28_Witness ==
    /\ Uncrossed(orderbooks)
    /\ cycle.evaluated /\ cycle.posOutcome = "ok"
    /\ Spread2(orderbooks) > MIN_SPREAD
    /\ Spread1(orderbooks) <= MIN_SPREAD
    /\ Len(cycle.batches) = 1 /\ IsUnderBatch(cycle.batches[1])


\* The sum of the prices of the legs of one side.
RECURSIVE SidePrices(_, _)
SidePrices(legs, side) ==
    IF legs = <<>> THEN 0
    ELSE (IF Head(legs).side = side THEN Head(legs).price ELSE 0)
         + SidePrices(Tail(legs), side)

\* C29: the legs of a dispatched batch carry the prices the triggering spread
\* was computed from, so the SELL prices of the batch less its BUY prices are
\* that spread, and strictly greater than MIN_SPREAD.
C29_BatchPricesGiveSpread ==
    dispatched # <<>> =>
       \A b \in 1..Len(dispatched[1].batches) :
          LET legs == dispatched[1].batches[b] IN
          /\ SidePrices(legs, "SELL") - SidePrices(legs, "BUY") = dispatched[1].spread
          /\ SidePrices(legs, "SELL") - SidePrices(legs, "BUY") > MIN_SPREAD

====
